---- MODULE Spec2Model ----
(***************************************************************************)
(* Dataset acquisition framework of Transcription_Whisper (src/Dataset_d): *)
(* the destination lifecycle, the seven downloaders and the dispatch       *)
(* registry, over an explicit file system; and, over the same file system, *)
(* the audio preparation (src/Src/preprocessing) and the checkpoint cache  *)
(* with the pipeline that uses it (src/Src/model, src/App).                *)
(*                                                                         *)
(* A string is a sequence of one-character strings, so that the code's     *)
(* string operations are computed; a path is a sequence of components      *)
(* (<<>> is "/").                                                          *)
(* Every download call is synchronous: one call is one action, and the     *)
(* requests and subprocesses it issues are recorded in the call's log.     *)
(* An intermediate value that later steps read several times is handed on  *)
(* as an operator parameter, one operator per stage of the handler.        *)
(***************************************************************************)
EXTENDS Integers, Sequences, FiniteSets, TLC

VARIABLES
  fs,      \* the file system: existing path -> node
  pre,     \* the file system when the last call started
  call,    \* the last call: its operation and arguments
  res,     \* the last call's outcome: a DownloadResult or the exception raised
  io,      \* the network requests and subprocesses the last call issued and the
           \* paths it streamed response bodies to, in order
  calls    \* number of calls made so far

vars == <<fs, pre, call, res, io, calls>>

(***************************************************************************)
(* Bounds                                                                  *)
(***************************************************************************)
\* download calls in one behaviour
MaxCalls == 2
\* symbolic links followed while resolving one path (ELOOP beyond)
MaxLinks == 2

(***************************************************************************)
(* Strings                                                                 *)
(***************************************************************************)
Last(s) == s[Len(s)]
Front(s) == SubSeq(s, 1, Len(s) - 1)

RECURSIVE SeqToSet(_)
SeqToSet(s) == IF s = <<>> THEN {} ELSE {Head(s)} \cup SeqToSet(Tail(s))

\* position of the last occurrence of character c in cs, 0 when there is none
RECURSIVE RFind(_, _)
RFind(cs, c) ==
  IF cs = <<>> THEN 0
  ELSE IF Last(cs) = c THEN Len(cs) ELSE RFind(Front(cs), c)

EndsWith(cs, tail) ==
  Len(cs) >= Len(tail) /\ SubSeq(cs, Len(cs) - Len(tail) + 1, Len(cs)) = tail

\* os.path.splitext of a name without separators: the extension starts at the last
\* dot unless only dots precede it
SplitExt(cs) ==
  LET dot == RFind(cs, ".") IN
  IF dot > 0 /\ \E i \in 1..(dot - 1) : cs[i] # "."
  THEN <<SubSeq(cs, 1, dot - 1), SubSeq(cs, dot, Len(cs))>>
  ELSE <<cs, <<>>>>

\* pathlib's PurePath.suffix of a name
Suffix(cs) ==
  LET dot == RFind(cs, ".") IN
  IF 1 < dot /\ dot < Len(cs) THEN SubSeq(cs, dot, Len(cs)) ELSE <<>>

\* os.path.basename: what follows the last "/"
Basename(cs) == SubSeq(cs, RFind(cs, "/") + 1, Len(cs))

Digit(n) == CASE n = 0 -> "0" [] n = 1 -> "1" [] n = 2 -> "2" [] n = 3 -> "3"
              [] n = 4 -> "4" [] n = 5 -> "5" [] n = 6 -> "6" [] n = 7 -> "7"
              [] n = 8 -> "8" [] n = 9 -> "9"
RECURSIVE Decimal(_)
\* str(n) of a natural number
Decimal(n) == IF n < 10 THEN <<Digit(n)>> ELSE Append(Decimal(n \div 10), Digit(n % 10))

UpperOf == [a |-> "A", b |-> "B", c |-> "C", d |-> "D", e |-> "E", f |-> "F", g |-> "G",
            h |-> "H", i |-> "I", j |-> "J", k |-> "K", l |-> "L", m |-> "M", n |-> "N",
            o |-> "O", p |-> "P", q |-> "Q", r |-> "R", s |-> "S", t |-> "T", u |-> "U",
            v |-> "V", w |-> "W", x |-> "X", y |-> "Y", z |-> "Z"]
\* str.lower() of one character: an upper-case letter maps to its lower-case letter
LowerChar(c) ==
  IF \E l \in DOMAIN UpperOf : UpperOf[l] = c
  THEN CHOOSE l \in DOMAIN UpperOf : UpperOf[l] = c
  ELSE c
\* str.lower()
Lower(cs) == [i \in 1..Len(cs) |-> LowerChar(cs[i])]
\* str.upper(), used to spell the keys callers pass
Upper(cs) == [i \in 1..Len(cs) |-> IF cs[i] \in DOMAIN UpperOf THEN UpperOf[cs[i]] ELSE cs[i]]

(***************************************************************************)
(* File system                                                             *)
(***************************************************************************)
NoPath == <<<<"?">>>>

DirNode(g) == [kind |-> "dir", data |-> "", to |-> <<>>, gen |-> g]
FileNode(d, g) == [kind |-> "file", data |-> d, to |-> <<>>, gen |-> g]
LinkNode(t, g) == [kind |-> "link", data |-> "", to |-> t, gen |-> g]

\* p lies strictly below d
IsUnder(p, d) == Len(p) > Len(d) /\ SubSeq(p, 1, Len(d)) = d
IsAtOrUnder(p, d) == p = d \/ IsUnder(p, d)

RECURSIVE Real(_, _, _)
\* p with every symbolic link on it followed (os.path.realpath, strict on loops)
Real(f, p, fuel) ==
  IF p = <<>> THEN <<>>
  ELSE LET par == Real(f, Front(p), fuel) IN
       IF par = NoPath THEN NoPath
       ELSE LET q == Append(par, Last(p)) IN
            IF q \in DOMAIN f /\ f[q].kind = "link"
            THEN IF fuel = 0 THEN NoPath ELSE Real(f, f[q].to, fuel - 1)
            ELSE q

\* p with the links of its parent followed, the last component kept (lstat)
LPath(f, p) ==
  IF p = <<>> THEN <<>>
  ELSE LET par == Real(f, Front(p), MaxLinks) IN
       IF par = NoPath THEN NoPath ELSE Append(par, Last(p))

KindAt(f, q) ==
  IF q = NoPath THEN "none"
  ELSE IF q = <<>> THEN "dir"
  ELSE IF q \in DOMAIN f THEN f[q].kind ELSE "none"

\* Path.exists(), Path.is_file(), Path.is_dir(): links followed
Exists(f, p) == KindAt(f, Real(f, p, MaxLinks)) # "none"
IsFile(f, p) == KindAt(f, Real(f, p, MaxLinks)) = "file"
IsDir(f, p) == KindAt(f, Real(f, p, MaxLinks)) = "dir"
\* Path.is_symlink(): the last component not followed
IsSymlink(f, p) == KindAt(f, LPath(f, p)) = "link"
LExists(f, p) == KindAt(f, LPath(f, p)) # "none"

Remove(f, gone) == [q \in DOMAIN f \ gone |-> f[q]]
Put(f, q, node) == [r \in DOMAIN f \cup {q} |-> IF r = q THEN node ELSE f[r]]

Ok(f) == [ok |-> TRUE, err |-> "", fs |-> f]
Fail(e, f) == [ok |-> FALSE, err |-> e, fs |-> f]

\* Path.unlink(): removes the entry itself, never what a link points to
Unlink(f, p) ==
  LET q == LPath(f, p) IN
  IF KindAt(f, q) = "none" THEN Fail("FileNotFoundError", f)
  ELSE IF KindAt(f, q) = "dir" THEN Fail("IsADirectoryError", f)
  ELSE Ok(Remove(f, {q}))

\* a removal that goes through a symbolic link to the directory behind it
RmTreeFollow(f, p) ==
  LET q == Real(f, p, MaxLinks) IN
  IF KindAt(f, q) = "none" THEN Fail("FileNotFoundError", f)
  ELSE IF KindAt(f, q) = "file" THEN Fail("NotADirectoryError", f)
  ELSE Ok(Remove(f, {r \in DOMAIN f : IsUnder(r, q)} \cup {LPath(f, p)}))

\* shutil.rmtree(p): refuses a symbolic link, removes a directory with its subtree
RmTree(f, p) ==
  LET q == LPath(f, p) IN
  IF KindAt(f, q) = "link" THEN Fail("OSError", f)
  ELSE IF KindAt(f, q) = "none" THEN Fail("FileNotFoundError", f)
  ELSE IF KindAt(f, q) = "file" THEN Fail("NotADirectoryError", f)
  ELSE Ok(Remove(f, {r \in DOMAIN f : IsAtOrUnder(r, q)}))

RECURSIVE Mkdir(_, _, _)
\* Path.mkdir(parents=True, exist_ok=True); g stamps the directories created
Mkdir(f, p, g) ==
  IF p = <<>> THEN Ok(f)
  ELSE
  LET q == LPath(f, p) IN
  IF q = NoPath THEN Fail("FileNotFoundError", f)
  ELSE IF KindAt(f, q) # "none"
       THEN IF IsDir(f, p) THEN Ok(f) ELSE Fail("FileExistsError", f)
  ELSE IF KindAt(f, Front(q)) = "dir" THEN Ok(Put(f, q, DirNode(g)))
  ELSE IF KindAt(f, Front(q)) = "file" THEN Fail("NotADirectoryError", f)
  ELSE LET up == Mkdir(f, Front(p), g) IN
       IF ~up.ok THEN up
       ELSE IF IsDir(up.fs, Front(p))
            THEN Ok(Put(up.fs, LPath(up.fs, p), DirNode(g)))
            ELSE Fail("NotADirectoryError", up.fs)

\* open(p, "wb") and write: creates or truncates the file, through a final link
WriteFile(f, p, d, g) ==
  LET q == Real(f, p, MaxLinks) IN
  IF q = NoPath THEN Fail("OSError", f)
  ELSE IF KindAt(f, q) = "dir" THEN Fail("IsADirectoryError", f)
  ELSE IF KindAt(f, Front(q)) = "dir" THEN Ok(Put(f, q, FileNode(d, g)))
  ELSE IF KindAt(f, Front(q)) = "file" THEN Fail("NotADirectoryError", f)
  ELSE Fail("FileNotFoundError", f)

(***************************************************************************)
(* Results of a call                                                       *)
(***************************************************************************)
DDE == "DatasetDownloadError"

NoResult ==
  [status |-> "none", err |-> "", msg |-> <<>>, dataset_path |-> <<>>, hasFiles |-> FALSE,
   files |-> {}]
\* the call raised exception kind e with message m (kept where a caller reads it)
RaisedWith(e, m) ==
  [status |-> "error", err |-> e, msg |-> m, dataset_path |-> <<>>, hasFiles |-> FALSE,
   files |-> {}]
\* the call raised exception kind e
Raised(e) == RaisedWith(e, <<>>)
\* DownloadResult(dataset_path=p), details without a "files" key
Result(p) ==
  [status |-> "ok", err |-> "", msg |-> <<>>, dataset_path |-> p, hasFiles |-> FALSE,
   files |-> {}]
\* DownloadResult(dataset_path=p, details={"files": fl, ...})
ResultFiles(p, fl) ==
  [status |-> "ok", err |-> "", msg |-> <<>>, dataset_path |-> p, hasFiles |-> TRUE,
   files |-> fl]

\* what a call leaves: the file system, its outcome, the requests it issued
Out(f, r, log) == [fs |-> f, res |-> r, io |-> log]

(***************************************************************************)
(* common.py                                                               *)
(***************************************************************************)
\* a variant of ensure_destination that clears an existing path whatever overwrite
\* says
EnsureDestinationAlways(f, path, overwrite, g) ==
  IF Exists(f, path)
  THEN LET rm == IF IsFile(f, path) THEN Unlink(f, path) ELSE RmTree(f, path) IN
       IF ~rm.ok THEN rm ELSE Mkdir(rm.fs, path, g)
  ELSE Mkdir(f, path, g)

\* a variant of ensure_destination that, with overwrite set, keeps what is there
EnsureDestinationKeep(f, path, overwrite, g) ==
  IF Exists(f, path) /\ ~overwrite THEN Fail(DDE, f) ELSE Mkdir(f, path, g)

\* ensure_destination(path, overwrite)
EnsureDestination(f, path, overwrite, g) ==
  IF Exists(f, path)
  THEN IF ~overwrite THEN Fail(DDE, f)
       ELSE LET rm == IF IsFile(f, path) THEN Unlink(f, path) ELSE RmTree(f, path) IN
            IF ~rm.ok THEN rm ELSE Mkdir(rm.fs, path, g)
  ELSE Mkdir(f, path, g)

(***************************************************************************)
(* local_d.py                                                              *)
(***************************************************************************)
\* shutil.copytree / shutil.copy2 of every entry below src to the same place below
\* dst (the trees copied here hold no links)
CopyContents(f, src, dst, g) ==
  LET below == {q \in DOMAIN f : IsUnder(q, src)}
      Moved(q) == dst \o SubSeq(q, Len(src) + 1, Len(q))
      made == {Moved(q) : q \in below}
      From(r) == CHOOSE q \in below : Moved(q) = r
  IN [r \in DOMAIN f \cup made |->
        IF r \in made
        THEN IF f[From(r)].kind = "file" THEN FileNode(f[From(r)].data, g) ELSE DirNode(g)
        ELSE f[r]]

\* LocalDatasetImporter._copy
LocalCopy(f, source, destination, g) ==
  IF IsDir(f, source) THEN Ok(CopyContents(f, source, destination, g))
  ELSE IF ~IsFile(f, source) THEN Fail("FileNotFoundError", f)
  ELSE WriteFile(f, Append(destination, Last(source)), f[source].data, g)

\* LocalDatasetImporter._prepare_for_symlink
PrepareForSymlink(f, destination, overwrite, g) ==
  IF Exists(f, destination) \/ IsSymlink(f, destination)
  THEN IF ~overwrite THEN Fail(DDE, f)
       ELSE LET rm == IF IsDir(f, destination) /\ ~IsSymlink(f, destination)
                      THEN RmTree(f, destination) ELSE Unlink(f, destination) IN
            IF ~rm.ok THEN rm ELSE Mkdir(rm.fs, Front(destination), g)
  ELSE Mkdir(f, Front(destination), g)

\* LocalDatasetImporter._symlink: os.symlink
Symlink(f, source, destination, g) ==
  LET q == LPath(f, destination) IN
  IF q = NoPath THEN Fail("OSError", f)
  ELSE IF KindAt(f, q) # "none" THEN Fail("FileExistsError", f)
  ELSE IF KindAt(f, Front(q)) # "dir" THEN Fail("FileNotFoundError", f)
  ELSE Ok(Put(f, q, LinkNode(source, g)))

\* the import with the destination prepared before the source is looked at
LocalDownloadDestinationFirst(f, destination, a, g) ==
  LET source_path == Real(f, a.source, MaxLinks)
      p == IF a.symlink THEN PrepareForSymlink(f, destination, a.overwrite, g)
           ELSE EnsureDestination(f, destination, a.overwrite, g)
  IN IF ~p.ok THEN Out(p.fs, Raised(p.err), <<>>)
     ELSE IF source_path = NoPath THEN Out(p.fs, Raised("RuntimeError"), <<>>)
     ELSE IF ~Exists(p.fs, source_path) THEN Out(p.fs, Raised(DDE), <<>>)
     ELSE LET c == IF a.symlink THEN Symlink(p.fs, source_path, destination, g)
                   ELSE LocalCopy(p.fs, source_path, destination, g)
          IN IF ~c.ok THEN Out(c.fs, Raised(c.err), <<>>)
             ELSE Out(c.fs, Result(destination), <<>>)

\* LocalDatasetImporter.download(destination, source=, overwrite=, symlink=)
LocalDownload(f, destination, a, g) ==
  LET source_path == Real(f, a.source, MaxLinks) IN
  IF source_path = NoPath THEN Out(f, Raised("RuntimeError"), <<>>)
  ELSE IF ~Exists(f, source_path) THEN Out(f, Raised(DDE), <<>>)
  ELSE IF a.symlink
  THEN LET p == PrepareForSymlink(f, destination, a.overwrite, g) IN
       IF ~p.ok THEN Out(p.fs, Raised(p.err), <<>>)
       ELSE LET l == Symlink(p.fs, source_path, destination, g) IN
            IF ~l.ok THEN Out(l.fs, Raised(l.err), <<>>)
            ELSE Out(l.fs, Result(destination), <<>>)
  ELSE LET e == EnsureDestination(f, destination, a.overwrite, g) IN
       IF ~e.ok THEN Out(e.fs, Raised(e.err), <<>>)
       ELSE LET c == LocalCopy(e.fs, source_path, destination, g) IN
            IF ~c.ok THEN Out(c.fs, Raised(c.err), <<>>)
            ELSE Out(c.fs, Result(destination), <<>>)

(***************************************************************************)
(* Payloads and archives                                                   *)
(***************************************************************************)
\* what a server can send: three zip archives, a damaged archive, plain bytes, the
\* warning page of the consumer drive, a body whose transfer breaks mid-stream
Payloads == {"wrapped", "flat", "mixed", "corrupt", "blob", "page", "cut"}

File(p) == [path |-> p, kind |-> "file"]
Dir(p) == [path |-> p, kind |-> "dir"]
\* the members of a zip payload ("wrapped": one top-level directory around all,
\* "flat": top-level files only, "mixed": one top-level directory next to a file)
Entries(pl) ==
  CASE pl = "wrapped" -> {Dir(<<<<"X">>>>), File(<<<<"X">>, <<"a">>>>),
                          Dir(<<<<"X">>, <<"s">>>>), File(<<<<"X">>, <<"s">>, <<"b">>>>)}
    [] pl = "flat" -> {File(<<<<"a">>>>), File(<<<<"b">>>>)}
    [] pl = "mixed" -> {Dir(<<<<"X">>>>), File(<<<<"X">>, <<"a">>>>), File(<<<<"r">>>>)}
    [] OTHER -> {}
PayloadFormat(pl) == IF pl \in {"wrapped", "flat", "mixed"} THEN "zip" ELSE "none"

\* ZipFile.extractall(dest): every member written below dest
ExtractAll(f, dest, pl, g) ==
  LET at == {dest \o e.path : e \in Entries(pl)}
      Member(r) == CHOOSE e \in Entries(pl) : dest \o e.path = r
  IN [r \in DOMAIN f \cup at |->
        IF r \in at
        THEN IF Member(r).kind = "file" THEN FileNode(pl, g) ELSE DirNode(g)
        ELSE f[r]]

\* the format shutil.unpack_archive picks from the file name
UnpackFormat(name) ==
  IF EndsWith(name, <<".", "z", "i", "p">>) THEN "zip"
  ELSE IF EndsWith(name, <<".", "t", "a", "r">>) \/ EndsWith(name, <<".", "t", "g", "z">>)
          \/ EndsWith(name, <<".", "t", "a", "r", ".", "g", "z">>) THEN "tar"
  ELSE "none"

\* shutil.unpack_archive(archive, dest): ReadError for an unknown extension and for
\* a file that is not an archive of the format its name says
UnpackArchive(f, archive, name, dest, g) ==
  IF UnpackFormat(name) = "none" \/ PayloadFormat(f[archive].data) # UnpackFormat(name)
  THEN Fail("ReadError", f)
  ELSE Ok(ExtractAll(f, dest, f[archive].data, g))

\* [p for p in dest.rglob("*") if p.is_file()]
FilesBelow(f, dest) == {q \in DOMAIN f : IsUnder(q, dest) /\ f[q].kind = "file"}

\* shutil.move(src, dst) of a file onto a file path
MoveFile(f, src, dst, g) ==
  IF KindAt(f, src) # "file" THEN Fail("FileNotFoundError", f)
  ELSE LET w == WriteFile(Remove(f, {src}), dst, f[src].data, g) IN
       IF w.ok THEN w ELSE Fail(w.err, f)

Event(e, x) == [ev |-> e, arg |-> x]

(***************************************************************************)
(* hf_d.py                                                                 *)
(***************************************************************************)
\* HuggingFaceDownloader.download; a.hub is what snapshot_download does
HuggingFaceDownload(f, destination, a, g) ==
  LET e == EnsureDestination(f, destination, a.overwrite, g) IN
  IF ~e.ok THEN Out(e.fs, Raised(e.err), <<>>)
  ELSE IF a.hub # "ok" THEN Out(e.fs, Raised(DDE), <<Event("hub", a.hub)>>)
  ELSE LET w == WriteFile(e.fs, Append(destination, <<"t", ".", "c", "s", "v">>), "hub", g) IN
       Out(w.fs, Result(destination), <<Event("hub", a.hub)>>)

(***************************************************************************)
(* s3_d.py                                                                 *)
(***************************************************************************)
RECURSIVE StripSlashes(_)
StripSlashes(cs) ==
  IF cs # <<>> /\ Last(cs) = "/" THEN StripSlashes(Front(cs)) ELSE cs
\* Path(key).name
PathName(cs) == Basename(StripSlashes(cs))

\* S3Downloader._extract_archive
S3ExtractArchive(f, archive_path, name, destination, keep_archive, g) ==
  LET u == UnpackArchive(f, archive_path, name, destination, g) IN
  IF ~u.ok THEN [fs |-> f, files |-> {archive_path}]
  ELSE LET k == IF keep_archive THEN u.fs ELSE Remove(u.fs, {archive_path}) IN
       [fs |-> k, files |-> FilesBelow(k, destination)]

\* S3Downloader.download; a.first and a.second are what the two download_file
\* calls (with ExtraArgs, and the fallback without) do
S3Download(f, destination, a, g) ==
  LET e == EnsureDestination(f, destination, a.overwrite, g) IN
  IF ~e.ok THEN Out(e.fs, Raised(e.err), <<>>)
  ELSE
  LET target_name == IF a.filename # <<>> THEN a.filename
                     ELSE IF PathName(a.key) # <<>> THEN PathName(a.key)
                     ELSE <<"s", "3", "_", "o", "b", "j", "e", "c", "t">>
      target_path == Append(destination, target_name)
      try1 == <<Event("s3", "ExtraArgs")>>
      try2 == Append(try1, Event("s3", "plain"))
      got == WriteFile(e.fs, target_path, a.payload, g)
      Finish(log, wrapped) ==
        IF ~got.ok THEN Out(got.fs, Raised(IF wrapped THEN DDE ELSE got.err), log)
        ELSE IF a.extract
        THEN LET x == S3ExtractArchive(got.fs, target_path, target_name, destination,
                                       a.keep_archive, g) IN
             Out(x.fs, ResultFiles(destination, x.files), log)
        ELSE Out(got.fs, ResultFiles(destination, {target_path}), log)
  IN CASE a.first = "ok" -> Finish(try1, TRUE)
       [] a.first = "TypeError" ->
            IF a.second = "ok" THEN Finish(try2, FALSE)
            ELSE Out(e.fs, Raised(a.second), try2)
       [] OTHER -> Out(e.fs, Raised(DDE), try1)

(***************************************************************************)
(* drive.py                                                                *)
(***************************************************************************)
\* stream_response_to_file(response, target_path); for the body "cut"
\* iter_content raises after the first chunks are written
StreamResponseToFile(f, target_path, payload, g) ==
  LET m == Mkdir(f, Front(target_path), g) IN
  IF ~m.ok THEN m
  ELSE IF payload = "cut"
  THEN LET w == WriteFile(m.fs, target_path, "partial", g) IN
       IF w.ok THEN Fail("ChunkedEncodingError", w.fs) ELSE w
  ELSE WriteFile(m.fs, target_path, payload, g)

\* GoogleDriveDownloader._maybe_extract: the "files" it reports, or none when the
\* suffix is no archive suffix
DriveMaybeExtract(f, archive_path, name, destination, keep_archive, g) ==
  LET suffix == Lower(Suffix(name))
      pl == f[archive_path].data
  IN IF suffix = <<".", "z", "i", "p">>
     THEN IF PayloadFormat(pl) # "zip"
          THEN [ok |-> FALSE, err |-> "BadZipFile", fs |-> f, extracted |-> FALSE, files |-> {}]
          ELSE LET x == ExtractAll(f, destination, pl, g)
                   k == IF keep_archive THEN Ok(x) ELSE Unlink(x, archive_path)
               IN [ok |-> k.ok, err |-> k.err, fs |-> k.fs, extracted |-> TRUE,
                   files |-> {destination \o e.path : e \in Entries(pl)}]
     ELSE IF suffix \in {<<".", "t", "a", "r">>, <<".", "g", "z">>, <<".", "t", "g", "z">>,
                         <<".", "b", "z", "2">>}
     THEN IF PayloadFormat(pl) # "tar"
          THEN [ok |-> FALSE, err |-> "ReadError", fs |-> f, extracted |-> FALSE, files |-> {}]
          ELSE LET x == ExtractAll(f, destination, pl, g)
                   k == IF keep_archive THEN Ok(x) ELSE Unlink(x, archive_path)
               IN [ok |-> k.ok, err |-> k.err, fs |-> k.fs, extracted |-> TRUE,
                   files |-> {destination \o e.path : e \in Entries(pl)}]
     ELSE [ok |-> TRUE, err |-> "", fs |-> f, extracted |-> FALSE, files |-> {}]

\* CONFIRM_PATTERN.match(key): "download_warning" and then at least one of
\* [0-9A-Za-z_], anything after
DownloadWarning ==
  <<"d", "o", "w", "n", "l", "o", "a", "d", "_", "w", "a", "r", "n", "i", "n", "g">>
WordChar(c) ==
  \/ c \in DOMAIN UpperOf
  \/ c \in {UpperOf[l] : l \in DOMAIN UpperOf}
  \/ c \in {"0", "1", "2", "3", "4", "5", "6", "7", "8", "9", "_"}
ConfirmPattern(key) ==
  /\ Len(key) > Len(DownloadWarning)
  /\ SubSeq(key, 1, Len(DownloadWarning)) = DownloadWarning
  /\ WordChar(key[Len(DownloadWarning) + 1])

\* a cookie of a response
Cookie(n, v) == [name |-> n, value |-> v]
\* no token (None)
NoToken == "None"

RECURSIVE ConfirmToken(_)
\* GoogleDriveDownloader._confirm_token: the value of the first cookie whose name
\* matches
ConfirmToken(cookies) ==
  IF cookies = <<>> THEN NoToken
  ELSE IF ConfirmPattern(Head(cookies).name) THEN Head(cookies).value
  ELSE ConfirmToken(Tail(cookies))

\* a request of the consumer-drive flow: session.get with params id, export and,
\* when given, confirm
DriveGet(file_id, confirm) == Event("get", [id |-> file_id, confirm |-> confirm])

\* GoogleDriveDownloader._fetch: the requests issued, the number of the response
\* handed to the caller, its body, and whether it passed raise_for_status;
\* a.cookies, a.ok1 and a.body1 are the first response, a.ok2 and a.payload the
\* second
DriveFetch(a) ==
  LET token == ConfirmToken(a.cookies) IN
  IF token # NoToken /\ token # ""
  THEN [log |-> <<DriveGet(a.file_id, NoToken), Event("close", 1),
                  DriveGet(a.file_id, token)>>,
        ok |-> a.ok2, response |-> 2, body |-> a.payload]
  ELSE [log |-> <<DriveGet(a.file_id, NoToken)>>, ok |-> a.ok1, response |-> 1,
        body |-> a.body1]

\* GoogleDriveDownloader.download from the streaming of the response on; w is what
\* stream_response_to_file left, log the requests and the response read
GoogleDriveStreamed(w, target_path, target_name, destination, a, log, g) ==
  IF ~w.ok THEN Out(w.fs, Raised(w.err), log)
  ELSE IF ~a.extract THEN Out(w.fs, ResultFiles(destination, {target_path}), log)
  ELSE LET x == DriveMaybeExtract(w.fs, target_path, target_name, destination,
                                  a.keep_archive, g) IN
       IF ~x.ok THEN Out(x.fs, Raised(x.err), log)
       ELSE IF x.extracted THEN Out(x.fs, ResultFiles(destination, x.files), log)
       ELSE Out(x.fs, ResultFiles(destination, {target_path}), log)

\* GoogleDriveDownloader.download once _fetch has returned response r
GoogleDriveFetched(f, r, destination, a, g) ==
  LET inferred_name == IF a.disposition # <<>> THEN a.disposition
                       ELSE a.file_id \o <<".", "b", "i", "n">>
      target_name == IF a.file_name # <<>> THEN a.file_name ELSE inferred_name
      target_path == Append(destination, target_name)
  IN GoogleDriveStreamed(StreamResponseToFile(f, target_path, r.body, g), target_path,
                         target_name, destination, a,
                         Append(r.log, Event("read", r.response)), g)

\* GoogleDriveDownloader.download
GoogleDriveDownload(f, destination, a, g) ==
  LET e == EnsureDestination(f, destination, a.overwrite, g) IN
  IF ~e.ok THEN Out(e.fs, Raised(e.err), <<>>)
  ELSE IF ~DriveFetch(a).ok THEN Out(e.fs, Raised(DDE), DriveFetch(a).log)
  ELSE GoogleDriveFetched(e.fs, DriveFetch(a), destination, a, g)

(***************************************************************************)
(* kaggle_d.py                                                             *)
(***************************************************************************)
DotZip == <<".", "z", "i", "p">>

\* KaggleDownloader._build_command: bool(dataset) == bool(competition) is refused
KaggleCommandOk(a) == (a.dataset # <<>>) # (a.competition # <<>>)

\* KaggleDownloader._cleanup_archives
KaggleCleanupArchives(f, destination, keep_archive) ==
  IF keep_archive THEN f
  ELSE Remove(f, {q \in DOMAIN f : Front(q) = destination /\ EndsWith(Last(q), DotZip)})

\* what the kaggle command line, exiting 0, leaves in the directory given by -p
CliOutput(f, destination, produced, g) ==
  [r \in DOMAIN f \cup {Append(destination, n) : n \in produced} |->
     IF r \in DOMAIN f THEN f[r] ELSE FileNode("cli", g)]

RECURSIVE LStrip(_)
LStrip(cs) ==
  IF cs # <<>> /\ Head(cs) \in {" ", "\n", "\t"} THEN LStrip(Tail(cs)) ELSE cs
RECURSIVE RStrip(_)
RStrip(cs) ==
  IF cs # <<>> /\ Last(cs) \in {" ", "\n", "\t"} THEN RStrip(Front(cs)) ELSE cs
\* str.strip()
Strip(cs) == RStrip(LStrip(cs))

KaggleFailed ==
  <<"K", "a", "g", "g", "l", "e", " ", "C", "L", "I", " ", "f", "a", "i", "l", "e", "d",
    ":", " ">>

\* the message of a failed run, taking stdout first
KaggleMessageStdoutFirst(stderr, stdout) ==
  KaggleFailed \o (IF Strip(stdout) # <<>> THEN Strip(stdout) ELSE Strip(stderr))

\* f"Kaggle CLI failed: {result.stderr.strip() or result.stdout.strip()}"
KaggleMessage(stderr, stdout) ==
  KaggleFailed \o (IF Strip(stderr) # <<>> THEN Strip(stderr) ELSE Strip(stdout))

\* KaggleDownloader.__init__: kaggle_executable or shutil.which("kaggle");
\* a.cli_found is whether which finds one
KaggleInit(a) == a.kaggle_executable # <<>> \/ a.cli_found

\* KaggleDownloader() and its download
KaggleDownload(f, destination, a, g) ==
  IF ~KaggleInit(a) THEN Out(f, Raised(DDE), <<>>)
  ELSE
  LET e == EnsureDestination(f, destination, a.overwrite, g) IN
  IF ~e.ok THEN Out(e.fs, Raised(e.err), <<>>)
  ELSE IF ~KaggleCommandOk(a) THEN Out(e.fs, Raised(DDE), <<>>)
  ELSE
  LET log == <<Event("run", IF a.unzip THEN "--unzip" ELSE "")>> IN
  IF a.exit # 0 THEN Out(e.fs, RaisedWith(DDE, KaggleMessage(a.stderr, a.stdout)), log)
  ELSE LET o == CliOutput(e.fs, destination, a.produced, g)
           c == IF a.unzip THEN KaggleCleanupArchives(o, destination, a.keep_archive) ELSE o
       IN Out(c, ResultFiles(destination,
                             {q \in DOMAIN c : Front(q) = destination /\ c[q].kind = "file"}),
              log)

(***************************************************************************)
(* gh_d.py                                                                 *)
(***************************************************************************)
TmpDir == <<<<"t", "m", "p">>>>
\* tempfile.NamedTemporaryFile(suffix=..., delete=False)
TempFile(suffix) == Append(TmpDir, <<"t">> \o suffix)
\* tempfile.TemporaryDirectory()
ScratchDir == Append(TmpDir, <<"x">>)

\* a _find_single_root that never descends into a wrapping directory
FindSingleRootFlat(f, temp_root) ==
  IF {q \in DOMAIN f : Front(q) = temp_root /\ f[q].kind = "dir"} = {} THEN NoPath
  ELSE temp_root

\* GitHubDownloader._find_single_root: the directory to copy from, NoPath for
\* "Archive content is empty."
FindSingleRoot(f, temp_root) ==
  LET candidates == {q \in DOMAIN f : Front(q) = temp_root /\ f[q].kind = "dir"} IN
  IF Cardinality(candidates) = 1 THEN CHOOSE q \in candidates : TRUE
  ELSE IF candidates = {} THEN NoPath
  ELSE temp_root

\* leaving the "with tempfile.TemporaryDirectory()" block
DropScratch(f) == Remove(f, {q \in DOMAIN f : IsAtOrUnder(q, ScratchDir)})

\* GitHubDownloader._extract_archive after the scratch directory is gone: the
\* archive is moved into the destination or removed
GitHubSettleArchive(c, archive_path, destination, keep_archive, archive_name, g) ==
  LET k == IF keep_archive
           THEN MoveFile(c, archive_path, Append(destination, archive_name), g)
           ELSE IF Exists(c, archive_path) THEN Unlink(c, archive_path) ELSE Ok(c)
  IN IF ~k.ok THEN Out(k.fs, Raised(k.err), <<>>)
     ELSE Out(k.fs, Result(destination), <<>>)

\* GitHubDownloader._extract_archive from ensure_destination(destination,
\* overwrite=True) on; e is what ensure_destination left
GitHubCopyOut(e, source_path, archive_path, destination, keep_archive, archive_name, g) ==
  IF ~e.ok THEN Out(DropScratch(e.fs), Raised(e.err), <<>>)
  ELSE GitHubSettleArchive(DropScratch(CopyContents(e.fs, source_path, destination, g)),
                           archive_path, destination, keep_archive, archive_name, g)

\* GitHubDownloader._extract_archive once the archive is unpacked into the scratch
\* directory of x
GitHubExtracted(x, archive_path, destination, subdir, keep_archive, archive_name, g) ==
  LET extracted_root == FindSingleRoot(x, ScratchDir)
      source_path == extracted_root \o subdir
  IN
  IF extracted_root = NoPath THEN Out(DropScratch(x), Raised(DDE), <<>>)
  ELSE IF subdir # <<>> /\ ~Exists(x, source_path) THEN Out(DropScratch(x), Raised(DDE), <<>>)
  ELSE GitHubCopyOut(EnsureDestination(x, destination, TRUE, g), source_path, archive_path,
                     destination, keep_archive, archive_name, g)

\* GitHubDownloader._extract_archive
GitHubExtractArchive(f, archive_path, destination, subdir, keep_archive, extract, archive_name, g) ==
  IF ~extract
  THEN LET m == MoveFile(f, archive_path, Append(destination, archive_name), g) IN
       IF ~m.ok THEN Out(m.fs, Raised(m.err), <<>>)
       ELSE Out(m.fs, Result(destination), <<>>)
  ELSE IF PayloadFormat(f[archive_path].data) # "zip" THEN Out(f, Raised("BadZipFile"), <<>>)
  ELSE GitHubExtracted(ExtractAll(Put(f, ScratchDir, DirNode(g)), ScratchDir,
                                  f[archive_path].data, g),
                       archive_path, destination, subdir, keep_archive, archive_name, g)

\* GitHubDownloader._handle_downloaded_file
GitHubHandleDownloadedFile(f, file_path, destination, original_name, extract, keep_archive, g) ==
  IF extract /\ Suffix(Last(file_path)) = DotZip
  THEN GitHubExtractArchive(f, file_path, destination, <<>>, keep_archive, TRUE,
                            original_name, g)
  ELSE LET target == Append(destination, original_name)
           d == Mkdir(f, destination, g)
           m == IF ~d.ok THEN d ELSE MoveFile(d.fs, file_path, target, g)
       IN IF ~m.ok THEN Out(m.fs, Raised(m.err), <<>>)
          ELSE Out(m.fs, ResultFiles(destination, {target}), <<>>)

\* "<Path(repo).name>-<ref>.zip"
ArchiveLabel(repo, ref) == PathName(repo) \o <<"-">> \o ref \o DotZip

\* the outcome o of a step, with the requests issued before it
Logged(o, log) == Out(o.fs, o.res, log)

\* GitHubDownloader._download_repo_archive and the extraction that follows; w is
\* what streaming the zipball to the temporary file left
GitHubRepoArchive(w, tmp_path, destination, a, log, g) ==
  IF ~w.ok THEN Out(w.fs, Raised(w.err), log)
  ELSE Logged(GitHubExtractArchive(w.fs, tmp_path, destination, a.subdir, a.keep_archive,
                                   a.extract, ArchiveLabel(a.repo, a.ref), g), log)

\* GitHubDownloader._download_release_asset and the handling that follows; w is
\* what streaming the asset to the temporary file left
GitHubReleaseAsset(w, tmp_path, destination, a, log, g) ==
  IF ~w.ok THEN Out(w.fs, Raised(w.err), log)
  ELSE Logged(GitHubHandleDownloadedFile(w.fs, tmp_path, destination, a.asset_name,
                                         a.extract, a.keep_archive, g), log)

\* f"Asset '{asset_name}' not found in release {release_tag}."
AssetNotFound(asset_name, release_tag) ==
  <<"A", "s", "s", "e", "t", " ", "'">> \o asset_name
  \o <<"'", " ", "n", "o", "t", " ", "f", "o", "u", "n", "d", " ", "i", "n", " ",
       "r", "e", "l", "e", "a", "s", "e", " ">> \o release_tag \o <<".">>
\* f"GitHub request to {url} failed: {content}", without the url and the content
RequestFailed ==
  <<"G", "i", "t", "H", "u", "b", " ", "r", "e", "q", "u", "e", "s", "t", " ",
    "f", "a", "i", "l", "e", "d">>

\* a release flow that asks for the asset whatever the metadata says
GitHubFetchAssetFirst(f, destination, a, g) ==
  IF a.release_tag # <<>>
  THEN IF a.asset_name = <<>> THEN Out(f, Raised(DDE), <<>>)
       ELSE IF a.meta # "ok" \/ a.status # "ok"
       THEN Out(f, RaisedWith(DDE, RequestFailed),
                <<Event("get", "release"), Event("get", "asset")>>)
       ELSE GitHubReleaseAsset(
              StreamResponseToFile(f, TempFile(<<"_">> \o a.asset_name), a.payload, g),
              TempFile(<<"_">> \o a.asset_name), destination, a,
              <<Event("get", "release"), Event("get", "asset")>>, g)
  ELSE IF a.status # "ok"
  THEN Out(f, RaisedWith(DDE, RequestFailed), <<Event("get", "zipball")>>)
  ELSE GitHubRepoArchive(StreamResponseToFile(f, TempFile(DotZip), a.payload, g),
                         TempFile(DotZip), destination, a, <<Event("get", "zipball")>>, g)

\* GitHubDownloader.download after ensure_destination left f; a.meta is the
\* release-metadata response ("ok" lists the asset, "noasset" does not, "bad" is a
\* non-2xx status with a body that lists it, "badnoasset" one with a body that
\* does not), a.status the status of the archive or asset response
GitHubFetch(f, destination, a, g) ==
  IF a.release_tag # <<>>
  THEN IF a.asset_name = <<>> THEN Out(f, Raised(DDE), <<>>)
       ELSE IF a.meta \in {"bad", "badnoasset"}
       THEN Out(f, RaisedWith(DDE, RequestFailed), <<Event("get", "release")>>)
       ELSE IF a.meta = "noasset"
       THEN Out(f, RaisedWith(DDE, AssetNotFound(a.asset_name, a.release_tag)),
                <<Event("get", "release")>>)
       ELSE IF a.status # "ok"
       THEN Out(f, RaisedWith(DDE, RequestFailed),
                <<Event("get", "release"), Event("get", "asset")>>)
       ELSE GitHubReleaseAsset(
              StreamResponseToFile(f, TempFile(<<"_">> \o a.asset_name), a.payload, g),
              TempFile(<<"_">> \o a.asset_name), destination, a,
              <<Event("get", "release"), Event("get", "asset")>>, g)
  ELSE IF a.status # "ok"
  THEN Out(f, RaisedWith(DDE, RequestFailed), <<Event("get", "zipball")>>)
  ELSE GitHubRepoArchive(StreamResponseToFile(f, TempFile(DotZip), a.payload, g),
                         TempFile(DotZip), destination, a, <<Event("get", "zipball")>>, g)

\* GitHubDownloader.download
GitHubDownload(f, destination, a, g) ==
  LET e == EnsureDestination(f, destination, a.overwrite, g) IN
  IF ~e.ok THEN Out(e.fs, Raised(e.err), <<>>)
  ELSE GitHubFetch(e.fs, destination, a, g)

(***************************************************************************)
(* http_d.py                                                               *)
(***************************************************************************)
\* A URL is its host and its path; the empty string is NoUrl
Url(h, path) == [host |-> h, path |-> path]
NoUrl == Url("", <<>>)

\* HTTPDownloader._normalise_urls: the targets, or <<>> when it raises
NormaliseUrls(url, urls) ==
  IF url # NoUrl /\ urls # <<>> THEN <<>>
  ELSE IF url # NoUrl THEN <<url>>
  ELSE IF urls # <<>> THEN SelectSeq(urls, LAMBDA u : u # NoUrl)
  ELSE <<>>

DownloadBin == <<"d", "o", "w", "n", "l", "o", "a", "d", ".", "b", "i", "n">>
\* HTTPDownloader._infer_filename
InferFilename(url) == IF Basename(url.path) # <<>> THEN Basename(url.path) ELSE DownloadBin

\* requested and requested.strip()
Given(requested) == \E i \in 1..Len(requested) : requested[i] # " "

\* HTTPDownloader._pick_name
PickName(requested, inferred, index) ==
  LET base == IF Given(requested) THEN requested ELSE inferred IN
  IF index = 1 THEN base
  ELSE SplitExt(base)[1] \o <<"_">> \o Decimal(index) \o SplitExt(base)[2]

\* HTTPDownloader._maybe_extract: the paths it reports
HTTPMaybeExtract(f, archive_path, name, destination, keep_archive, g) ==
  LET u == UnpackArchive(f, archive_path, name, destination, g) IN
  IF ~u.ok THEN [fs |-> f, files |-> {archive_path}]
  ELSE LET k == IF keep_archive THEN u.fs ELSE Remove(u.fs, {archive_path})
           extracted == FilesBelow(k, destination)
       IN [fs |-> k, files |-> IF extracted # {} THEN extracted ELSE {destination}]

RECURSIVE HTTPLoop(_, _, _, _, _, _, _, _)
\* the loop of HTTPDownloader.download from target number index on; a.responses[i]
\* is what the server answers to the i-th request; the log holds each request,
\* once its body is on disk the path it was streamed to, and the return of
\* _maybe_extract
HTTPLoop(f, destination, a, targets, index, saved_files, log, g) ==
  IF index > Len(targets) THEN Out(f, ResultFiles(destination, saved_files), log)
  ELSE
  LET target_url == targets[index]
      target_name == PickName(a.filename, InferFilename(target_url), index)
      file_path == Append(destination, target_name)
      asked == Append(log, Event("get", target_url))
      reply == a.responses[index]
  IN
  IF ~reply.ok THEN Out(f, Raised(DDE), asked)
  ELSE
  LET w == StreamResponseToFile(f, file_path, reply.payload, g)
      saved == Append(asked, Event("save", file_path))
  IN
  IF ~w.ok THEN Out(w.fs, Raised(w.err), asked)
  ELSE IF a.extract
  THEN LET x == HTTPMaybeExtract(w.fs, file_path, target_name, destination,
                                 a.keep_archive, g) IN
       HTTPLoop(x.fs, destination, a, targets, index + 1, saved_files \cup x.files,
                Append(saved, Event("extract", file_path)), g)
  ELSE HTTPLoop(w.fs, destination, a, targets, index + 1, saved_files \cup {file_path},
                saved, g)

\* an HTTPDownloader.download that takes its targets last first
HTTPDownloadReversed(f, destination, a, g) ==
  LET e == EnsureDestination(f, destination, a.overwrite, g) IN
  IF ~e.ok THEN Out(e.fs, Raised(e.err), <<>>)
  ELSE LET targets == NormaliseUrls(a.url, a.urls) IN
       IF targets = <<>> THEN Out(e.fs, Raised(DDE), <<>>)
       ELSE HTTPLoop(e.fs, destination, a,
                     [i \in 1..Len(targets) |-> targets[Len(targets) + 1 - i]], 1, {}, <<>>, g)

\* HTTPDownloader.download
HTTPDownload(f, destination, a, g) ==
  LET e == EnsureDestination(f, destination, a.overwrite, g) IN
  IF ~e.ok THEN Out(e.fs, Raised(e.err), <<>>)
  ELSE LET targets == NormaliseUrls(a.url, a.urls) IN
       IF targets = <<>> THEN Out(e.fs, Raised(DDE), <<>>)
       ELSE HTTPLoop(e.fs, destination, a, targets, 1, {}, <<>>, g)

(***************************************************************************)
(* download.py                                                             *)
(***************************************************************************)
\* Path(__file__).resolve().parent / "data"
DATASETS_ROOT == <<<<"p", "k", "g">>, <<"d", "a", "t", "a">>>>

DOWNLOADERS ==
  (<<"g", "i", "t", "h", "u", "b">> :> "GitHubDownloader")
  @@ (<<"g", "h">> :> "GitHubDownloader")
  @@ (<<"h", "u", "g", "g", "i", "n", "g", "f", "a", "c", "e">> :> "HuggingFaceDownloader")
  @@ (<<"h", "f">> :> "HuggingFaceDownloader")
  @@ (<<"g", "o", "o", "g", "l", "e", "_", "d", "r", "i", "v", "e">> :> "GoogleDriveDownloader")
  @@ (<<"g", "d", "r", "i", "v", "e">> :> "GoogleDriveDownloader")
  @@ (<<"k", "a", "g", "g", "l", "e">> :> "KaggleDownloader")
  @@ (<<"h", "t", "t", "p">> :> "HTTPDownloader")
  @@ (<<"h", "t", "t", "p", "s">> :> "HTTPDownloader")
  @@ (<<"u", "r", "l">> :> "HTTPDownloader")
  @@ (<<"s", "3">> :> "S3Downloader")
  @@ (<<"a", "w", "s">> :> "S3Downloader")
  @@ (<<"l", "o", "c", "a", "l">> :> "LocalDatasetImporter")
  @@ (<<"f", "i", "l", "e", "s", "y", "s", "t", "e", "m">> :> "LocalDatasetImporter")

\* available_sources(): the keys, as a set (the code returns them sorted)
AvailableSources == DOMAIN DOWNLOADERS

\* downloader_cls().download(destination, overwrite=overwrite, **kwargs)
Download(cls, f, destination, a, g) ==
  CASE cls = "GitHubDownloader" -> GitHubDownload(f, destination, a, g)
    [] cls = "HuggingFaceDownloader" -> HuggingFaceDownload(f, destination, a, g)
    [] cls = "GoogleDriveDownloader" -> GoogleDriveDownload(f, destination, a, g)
    [] cls = "KaggleDownloader" -> KaggleDownload(f, destination, a, g)
    [] cls = "HTTPDownloader" -> HTTPDownload(f, destination, a, g)
    [] cls = "S3Downloader" -> S3Download(f, destination, a, g)
    [] cls = "LocalDatasetImporter" -> LocalDownload(f, destination, a, g)

\* a variant that looks the source up as it is spelled
SourceKeyExact(source) == source

\* the key download_dataset looks up
SourceKey(source) == Lower(source)

\* target_root=None
NoRoot == NoPath

\* get_datasets_root(): DATASETS_ROOT.mkdir(parents=True, exist_ok=True)
GetDatasetsRoot(f, g) == Mkdir(f, DATASETS_ROOT, g)

\* a variant of download_dataset that prepares the root before it looks the key up
DownloadDatasetEager(f, source, dataset_name, target_root, a, g) ==
  LET key == SourceKey(source)
      def == IF target_root = NoRoot THEN GetDatasetsRoot(f, g) ELSE Ok(f)
      destination_root == IF target_root = NoRoot THEN DATASETS_ROOT ELSE target_root
      made == IF ~def.ok THEN def ELSE Mkdir(def.fs, destination_root, g)
      destination == IF dataset_name # <<>> THEN Append(destination_root, dataset_name)
                     ELSE destination_root
  IN IF ~made.ok
     THEN [out |-> Out(made.fs, Raised(made.err), <<>>), cls |-> DOWNLOADERS[key],
           dest |-> NoPath]
     ELSE IF key \notin DOMAIN DOWNLOADERS
     THEN [out |-> Out(made.fs, Raised(DDE), <<>>), cls |-> "", dest |-> NoPath]
     ELSE [out |-> Download(DOWNLOADERS[key], made.fs, destination, a, g),
           cls |-> DOWNLOADERS[key], dest |-> destination]

\* a variant of download_dataset that hands every backend the root itself
DownloadDatasetFlat(f, source, dataset_name, target_root, a, g) ==
  LET key == SourceKey(source) IN
  IF key \notin DOMAIN DOWNLOADERS
  THEN [out |-> Out(f, Raised(DDE), <<>>), cls |-> "", dest |-> NoPath]
  ELSE
  LET def == IF target_root = NoRoot THEN GetDatasetsRoot(f, g) ELSE Ok(f)
      destination_root == IF target_root = NoRoot THEN DATASETS_ROOT ELSE target_root
      made == IF ~def.ok THEN def ELSE Mkdir(def.fs, destination_root, g)
  IN IF ~made.ok
     THEN [out |-> Out(made.fs, Raised(made.err), <<>>), cls |-> DOWNLOADERS[key],
           dest |-> NoPath]
     ELSE [out |-> Download(DOWNLOADERS[key], made.fs, destination_root, a, g),
           cls |-> DOWNLOADERS[key], dest |-> destination_root]

\* download_dataset(source, dataset_name=, target_root=, overwrite=, **kwargs):
\* what it leaves, the class DOWNLOADERS.get(key) gave it ("" for none) and the
\* destination it forwarded to that class's download (NoPath when it did not get
\* that far); dataset_name is one path component, <<>> for None
DownloadDataset(f, source, dataset_name, target_root, a, g) ==
  LET key == SourceKey(source) IN
  IF key \notin DOMAIN DOWNLOADERS
  THEN [out |-> Out(f, Raised(DDE), <<>>), cls |-> "", dest |-> NoPath]
  ELSE
  LET def == IF target_root = NoRoot THEN GetDatasetsRoot(f, g) ELSE Ok(f)
      destination_root == IF target_root = NoRoot THEN DATASETS_ROOT ELSE target_root
      made == IF ~def.ok THEN def ELSE Mkdir(def.fs, destination_root, g)
      destination == IF dataset_name # <<>> THEN Append(destination_root, dataset_name)
                     ELSE destination_root
  IN IF ~made.ok
     THEN [out |-> Out(made.fs, Raised(made.err), <<>>), cls |-> DOWNLOADERS[key],
           dest |-> NoPath]
     ELSE [out |-> Download(DOWNLOADERS[key], made.fs, destination, a, g),
           cls |-> DOWNLOADERS[key], dest |-> destination]

(***************************************************************************)
(* The callers' inputs and the environment's answers                       *)
(***************************************************************************)
Tr == <<"t", "r">>
Ds == <<"d", "s">>
TargetRoot == <<Tr>>
Dest == <<Tr, Ds>>
SrcDir == <<<<"s", "d">>>>
SrcFile == <<<<"s", "f">>>>
Gone == <<<<"n", "o">>>>

DZip == <<"d", ".", "z", "i", "p">>
DBin == <<"d", ".", "b", "i", "n">>

\* (extract, keep_archive, payload) combinations
Modes ==
  {[extract |-> FALSE, keep_archive |-> FALSE, payload |-> "blob"],
   [extract |-> TRUE, keep_archive |-> FALSE, payload |-> "wrapped"],
   [extract |-> TRUE, keep_archive |-> TRUE, payload |-> "wrapped"],
   [extract |-> TRUE, keep_archive |-> FALSE, payload |-> "flat"],
   [extract |-> TRUE, keep_archive |-> FALSE, payload |-> "mixed"],
   [extract |-> TRUE, keep_archive |-> FALSE, payload |-> "corrupt"]}

\* a transfer that breaks mid-stream
CutMode == [extract |-> FALSE, keep_archive |-> FALSE, payload |-> "cut"]

LocalArgs(dest) ==
  [source : {SrcDir, SrcFile, Gone, dest}, overwrite : BOOLEAN, symlink : BOOLEAN]

HuggingFaceArgs == [overwrite : BOOLEAN, hub : {"ok", "HfHubHTTPError"}]

S3Args ==
  {[overwrite |-> o, key |-> <<"k", "/">> \o DZip, filename |-> <<>>, first |-> t[1],
    second |-> t[2], extract |-> m.extract, keep_archive |-> m.keep_archive,
    payload |-> m.payload] :
     o \in BOOLEAN, m \in Modes,
     t \in {<<"ok", "ok">>, <<"ClientError", "ok">>, <<"TypeError", "ok">>,
            <<"TypeError", "ClientError">>}}

WarningCookie == DownloadWarning \o <<"_", "x", "1">>

DriveArgs ==
  {[overwrite |-> o, file_id |-> <<"i", "d">>, file_name |-> n[1], disposition |-> n[2],
    cookies |-> IF c THEN <<Cookie(WarningCookie, "tok")>> ELSE <<>>,
    ok1 |-> r, ok2 |-> r, body1 |-> IF c THEN "page" ELSE m.payload,
    extract |-> m.extract, keep_archive |-> m.keep_archive, payload |-> m.payload] :
     o \in BOOLEAN, c \in BOOLEAN, r \in BOOLEAN, m \in Modes \cup {CutMode},
     n \in {<<DZip, <<>>>>, <<<<>>, DZip>>, <<<<>>, <<>>>>}}

\* what a failing run printed: stderr and stdout
Usage == <<"o", "u", "t">>
KaggleOutputs ==
  {<<<<"b", "a", "d", "\n">>, Usage>>, <<<<>>, Usage>>, <<<<" ", "\n">>, Usage>>, <<<<>>, <<>>>>}

KaggleArgs ==
  {[overwrite |-> o, kaggle_executable |-> c[1], cli_found |-> c[2], dataset |-> c[3],
    competition |-> c[4], exit |-> c[5], stderr |-> c[6], stdout |-> c[7],
    unzip |-> u[1], keep_archive |-> u[2], produced |-> pr] :
     o \in BOOLEAN,
     c \in {<<<<>>, FALSE, <<"o", "/", "d">>, <<>>, 0, <<>>, <<>>>>,
            <<<<"k">>, FALSE, <<"o", "/", "d">>, <<>>, 0, <<>>, <<>>>>,
            <<<<>>, TRUE, <<>>, <<>>, 0, <<>>, <<>>>>,
            <<<<>>, TRUE, <<"o", "/", "d">>, <<"c">>, 0, <<>>, <<>>>>,
            <<<<>>, TRUE, <<"o", "/", "d">>, <<>>, 0, <<>>, <<>>>>,
            <<<<>>, TRUE, <<>>, <<"c">>, 0, <<>>, <<>>>>}
           \cup {<<<<>>, TRUE, <<"o", "/", "d">>, <<>>, 1, t[1], t[2]>> : t \in KaggleOutputs},
     u \in {<<FALSE, FALSE>>, <<TRUE, FALSE>>, <<TRUE, TRUE>>},
     pr \in {{<<"d", ".", "c", "s", "v">>}, {DZip}, {<<"d", ".", "c", "s", "v">>, DZip}}}

GitHubArgs ==
  {[overwrite |-> o, repo |-> <<"o", "/", "r">>, ref |-> <<"m">>, subdir |-> sd,
    release_tag |-> rel[1], asset_name |-> rel[2], meta |-> rel[3], status |-> st,
    extract |-> m.extract, keep_archive |-> m.keep_archive, payload |-> m.payload] :
     o \in BOOLEAN, m \in Modes \cup {CutMode}, st \in {"ok", "bad"},
     sd \in {<<>>, <<<<"s">>>>, <<<<"z">>>>},
     rel \in {<<<<>>, <<>>, "ok">>, <<<<"v", "1">>, <<>>, "ok">>,
              <<<<"v", "1">>, DZip, "ok">>, <<<<"v", "1">>, DBin, "ok">>,
              <<<<"v", "1">>, DZip, "bad">>, <<<<"v", "1">>, DZip, "noasset">>,
              <<<<"v", "1">>, DZip, "badnoasset">>}}

U1 == Url("h1", <<"/">> \o DZip)
U2 == Url("h2", <<"/", "v", "/">> \o DZip)
Reply(okay, pl) == [ok |-> okay, payload |-> pl]

HTTPArgs ==
  {[overwrite |-> o, url |-> u[1], urls |-> u[2], filename |-> <<>>,
    extract |-> m.extract, keep_archive |-> m.keep_archive,
    responses |-> <<Reply(rs[1], m.payload), Reply(rs[2], m.payload)>>] :
     o \in BOOLEAN, m \in Modes,
     u \in {<<NoUrl, <<>>>>, <<U1, <<U2>>>>, <<NoUrl, <<NoUrl>>>>, <<U1, <<>>>>,
            <<NoUrl, <<U1, U2>>>>},
     rs \in {<<TRUE, TRUE>>, <<TRUE, FALSE>>, <<FALSE, TRUE>>}}

\* the keyword arguments a caller of download_dataset passes for class cls
ArgsFor(cls, dest) ==
  CASE cls = "GitHubDownloader" -> GitHubArgs
    [] cls = "HuggingFaceDownloader" -> HuggingFaceArgs
    [] cls = "GoogleDriveDownloader" -> DriveArgs
    [] cls = "KaggleDownloader" -> KaggleArgs
    [] cls = "HTTPDownloader" -> HTTPArgs
    [] cls = "S3Downloader" -> S3Args
    [] cls = "LocalDatasetImporter" -> LocalArgs(dest)

(***************************************************************************)
(* Initial file systems                                                    *)
(***************************************************************************)
Old(d) == FileNode(d, 0)
\* the package directory, the temporary directory, a source directory with a and
\* b/c, a source file
BaseFs ==
  (<<<<"p", "k", "g">>>> :> DirNode(0)) @@ (TmpDir :> DirNode(0))
  @@ (SrcDir :> DirNode(0)) @@ (Append(SrcDir, <<"a">>) :> Old("A"))
  @@ (Append(SrcDir, <<"b">>) :> DirNode(0))
  @@ (SrcDir \o <<<<"b">>, <<"c">>>> :> Old("C"))
  @@ (SrcFile :> Old("F"))

\* what may be at the destination before the first call
InitialFs ==
  {BaseFs,
   BaseFs @@ (TargetRoot :> DirNode(0)),
   BaseFs @@ (TargetRoot :> DirNode(0)) @@ (Dest :> DirNode(0)),
   BaseFs @@ (TargetRoot :> DirNode(0)) @@ (Dest :> DirNode(0))
     @@ (Append(Dest, <<"o", "l", "d">>) :> Old("old"))
     @@ (Append(Dest, <<"a">>) :> Old("old")),
   BaseFs @@ (TargetRoot :> DirNode(0)) @@ (Dest :> Old("old")),
   BaseFs @@ (TargetRoot :> DirNode(0)) @@ (Dest :> LinkNode(SrcDir, 0)),
   BaseFs @@ (TargetRoot :> DirNode(0)) @@ (Dest :> LinkNode(SrcFile, 0)),
   BaseFs @@ (TargetRoot :> DirNode(0)) @@ (Dest :> LinkNode(Gone, 0))}

\* p is a directory of f itself, with entries
NonEmptyDir(f, p) == KindAt(f, p) = "dir" /\ \E q \in DOMAIN f : IsUnder(q, p)

(***************************************************************************)
(* The calls                                                               *)
(***************************************************************************)
NoCall ==
  [op |-> "none", cls |-> "", source |-> <<>>, name |-> <<>>, root |-> NoPath,
   dest |-> NoPath, a |-> <<>>]

Init ==
  /\ fs \in InitialFs
  /\ pre = fs
  /\ call = NoCall
  /\ res = NoResult
  /\ io = <<>>
  /\ calls = 0

\* one call of cls().download(dest, **a) by a caller holding the class; o is what
\* the call leaves
Direct(cls, dest, a, o) ==
  /\ call.op = "none"
  /\ calls < MaxCalls
  /\ fs' = o.fs
  /\ res' = o.res
  /\ io' = o.io
  /\ pre' = fs
  /\ call' = [op |-> "download", cls |-> cls, source |-> <<>>, name |-> <<>>,
              root |-> NoPath, dest |-> dest, a |-> a]
  /\ calls' = calls + 1

GitHubCall ==
  \E a \in GitHubArgs : Direct("GitHubDownloader", Dest, a, GitHubDownload(fs, Dest, a, 1))
HuggingFaceCall ==
  \E a \in HuggingFaceArgs :
    Direct("HuggingFaceDownloader", Dest, a, HuggingFaceDownload(fs, Dest, a, 1))
GoogleDriveCall ==
  \E a \in DriveArgs :
    Direct("GoogleDriveDownloader", Dest, a, GoogleDriveDownload(fs, Dest, a, 1))
KaggleCall ==
  \E a \in KaggleArgs : Direct("KaggleDownloader", Dest, a, KaggleDownload(fs, Dest, a, 1))
HTTPCall ==
  \E a \in HTTPArgs : Direct("HTTPDownloader", Dest, a, HTTPDownload(fs, Dest, a, 1))
S3Call ==
  \E a \in S3Args : Direct("S3Downloader", Dest, a, S3Download(fs, Dest, a, 1))
LocalCall ==
  \E a \in LocalArgs(Dest) :
    Direct("LocalDatasetImporter", Dest, a, LocalDownload(fs, Dest, a, 1))

\* the caller has taken the result: the next call starts from the file system as
\* it is, everything in it counted as prior content
Settle ==
  /\ call.op # "none"
  /\ fs' = [q \in DOMAIN fs |-> [fs[q] EXCEPT !.gen = 0]]
  /\ pre' = fs'
  /\ call' = NoCall
  /\ res' = NoResult
  /\ io' = <<>>
  /\ UNCHANGED calls

Next ==
  \/ GitHubCall
  \/ HuggingFaceCall
  \/ GoogleDriveCall
  \/ KaggleCall
  \/ HTTPCall
  \/ S3Call
  \/ LocalCall
  \/ Settle

Spec == Init /\ [][Next]_vars

(***************************************************************************)
(* Calls through the registry                                              *)
(***************************************************************************)
Capitalised(cs) == IF cs = <<>> THEN cs ELSE Upper(<<Head(cs)>>) \o Tail(cs)

\* the source strings callers pass: every key in lower and in upper case, the
\* short keys capitalised, and strings that are no key in any spelling
Sources ==
  UNION {{k, Upper(k)} : k \in DOMAIN DOWNLOADERS}
  \cup {Capitalised(k) : k \in {k \in DOMAIN DOWNLOADERS : Len(k) <= 3}}
  \cup {<<>>, <<"f", "t", "p">>, <<" ", "g", "h">>, <<"S", "4">>}

\* one plain request per class, with and without overwrite
RegistryArgs(cls) ==
  CASE cls = "GitHubDownloader" ->
         {a \in GitHubArgs : /\ a.release_tag = <<>> /\ a.subdir = <<>> /\ a.status = "ok"
                             /\ a.payload = "wrapped" /\ ~a.keep_archive}
    [] cls = "HuggingFaceDownloader" -> {a \in HuggingFaceArgs : a.hub = "ok"}
    [] cls = "GoogleDriveDownloader" ->
         {a \in DriveArgs : /\ a.cookies = <<>> /\ a.ok1 /\ a.payload = "blob"
                           /\ a.file_name = DZip}
    [] cls = "KaggleDownloader" ->
         {a \in KaggleArgs : /\ a.kaggle_executable = <<>> /\ a.cli_found
                             /\ a.dataset # <<>> /\ a.competition = <<>>
                             /\ a.exit = 0 /\ ~a.unzip /\ a.produced = {DZip}}
    [] cls = "HTTPDownloader" ->
         {a \in HTTPArgs : /\ a.url = U1 /\ a.urls = <<>> /\ ~a.extract
                           /\ a.responses[1].ok /\ a.responses[2].ok}
    [] cls = "S3Downloader" -> {a \in S3Args : a.first = "ok" /\ ~a.extract}
    [] cls = "LocalDatasetImporter" -> {a \in LocalArgs(SrcDir) : a.source = SrcDir}

\* the keyword arguments that go with a source: those of the backend it names, or
\* for a string that names none those of the HTTP backend or the local importer
KwargsFor(source) ==
  IF Lower(source) \in DOMAIN DOWNLOADERS THEN RegistryArgs(DOWNLOADERS[Lower(source)])
  ELSE RegistryArgs("HTTPDownloader") \cup RegistryArgs("LocalDatasetImporter")

\* one call of download_dataset(source, dataset_name=name, target_root=root, **a);
\* d is what the call leaves, the class it constructed and the destination it
\* forwarded
Registered(source, name, root, a, d) ==
  /\ fs' = d.out.fs
  /\ res' = d.out.res
  /\ io' = d.out.io
  /\ call' = [op |-> "download_dataset", cls |-> d.cls, source |-> source,
              name |-> name, root |-> root, dest |-> d.dest, a |-> a]

DownloadDatasetCall ==
  /\ call.op = "none"
  /\ calls < MaxCalls
  /\ \E source \in Sources, name \in {<<>>, Ds}, root \in {NoRoot, TargetRoot} :
       \E a \in KwargsFor(source) :
         Registered(source, name, root, a, DownloadDataset(fs, source, name, root, a, 1))
  /\ pre' = fs
  /\ calls' = calls + 1

NextRegistry ==
  \/ DownloadDatasetCall
  \/ Settle

\* before the first call through the registry: no default root yet, and either
\* no target root, one whose dataset directory is populated, or a regular file
\* where the target root is to be
InitRegistry ==
  /\ fs \in {f \in InitialFs : TargetRoot \in DOMAIN f => NonEmptyDir(f, Dest)}
            \cup {BaseFs @@ (TargetRoot :> Old("old"))}
  /\ pre = fs
  /\ call = NoCall
  /\ res = NoResult
  /\ io = <<>>
  /\ calls = 0

SpecRegistry == InitRegistry /\ [][NextRegistry]_vars

(***************************************************************************)
(* Batches of URLs through the HTTP backend                                *)
(***************************************************************************)
\* URLs in one urls list
MaxUrls == 3

AZip == <<"a", ".", "z", "i", "p">>
A2Zip == <<"a", "_", "2", ".", "z", "i", "p">>
FZip == <<"f", ".", "z", "i", "p">>
Ua == Url("h1", <<"/">> \o AZip)
Ub == Url("h2", <<"/", "v", "/">> \o AZip)
Uc == Url("h1", <<"/">> \o A2Zip)
Ud == Url("h1", <<"/">>)

\* the urls lists of up to MaxUrls entries, empty strings among them
UrlLists == UNION {[1..n -> {Ua, Ub, Uc, Ud, NoUrl}] : n \in 0..MaxUrls}

\* what the servers answer to the requests of one call, in order
Answers ==
  {[extract |-> FALSE, keep_archive |-> FALSE,
    responses |-> [i \in 1..MaxUrls |-> Reply(TRUE, "blob")]],
   [extract |-> FALSE, keep_archive |-> FALSE,
    responses |-> [i \in 1..MaxUrls |-> Reply(i # 2, "blob")]],
   [extract |-> TRUE, keep_archive |-> FALSE,
    responses |-> [i \in 1..MaxUrls |-> Reply(TRUE, "wrapped")]],
   [extract |-> TRUE, keep_archive |-> FALSE,
    responses |-> [i \in 1..MaxUrls |-> Reply(TRUE, IF i = 1 THEN "corrupt" ELSE "wrapped")]],
   [extract |-> TRUE, keep_archive |-> TRUE,
    responses |-> [i \in 1..MaxUrls |-> Reply(TRUE, IF i = 2 THEN "flat" ELSE "wrapped")]],
   [extract |-> TRUE, keep_archive |-> FALSE,
    responses |-> [i \in 1..MaxUrls |-> Reply(i # 3, "wrapped")]],
   [extract |-> FALSE, keep_archive |-> FALSE,
    responses |-> [i \in 1..MaxUrls |-> Reply(i # 1, "blob")]]}

HTTPBatchArgs ==
  {[overwrite |-> o, url |-> u, urls |-> us, filename |-> n, extract |-> r.extract,
    keep_archive |-> r.keep_archive, responses |-> r.responses] :
     o \in BOOLEAN, u \in {NoUrl, Ua}, us \in UrlLists, n \in {<<>>, <<" ">>, FZip},
     r \in Answers}

\* the one call of a behaviour that exercises the naming of several targets
HTTPBatchCall ==
  /\ calls = 0
  /\ \E a \in HTTPBatchArgs :
       Direct("HTTPDownloader", Dest, a, HTTPDownload(fs, Dest, a, 1))

NextHttp == HTTPBatchCall

SpecHttp == Init /\ [][NextHttp]_vars

(***************************************************************************)
(* The consumer-drive flow with every kind of first response               *)
(***************************************************************************)
\* the cookies of the first response: none, a warning cookie, a warning cookie
\* with an empty value, a cookie named just download_warning, a session cookie
\* before the warning cookie
CookieJars ==
  {<<>>, <<Cookie(WarningCookie, "tok")>>, <<Cookie(WarningCookie, "")>>,
   <<Cookie(DownloadWarning, "tok")>>,
   <<Cookie(<<"s", "i", "d">>, "s"), Cookie(WarningCookie, "tok")>>}

\* the statuses of the two responses vary independently; a first response that
\* carries a usable warning cookie has the warning page as its body
DriveFlowArgs ==
  {[overwrite |-> o, file_id |-> <<"i", "d">>, file_name |-> n[1], disposition |-> n[2],
    cookies |-> c, ok1 |-> r1, ok2 |-> r2,
    body1 |-> IF ConfirmToken(c) \in {NoToken, ""} THEN m.payload ELSE "page",
    extract |-> m.extract, keep_archive |-> m.keep_archive, payload |-> m.payload] :
     o \in BOOLEAN, c \in CookieJars, r1 \in BOOLEAN, r2 \in BOOLEAN, m \in Modes,
     n \in {<<DZip, <<>>>>, <<<<>>, <<>>>>}}

DriveFlowCall ==
  /\ calls = 0
  /\ \E a \in DriveFlowArgs :
       Direct("GoogleDriveDownloader", Dest, a, GoogleDriveDownload(fs, Dest, a, 1))

NextDrive == DriveFlowCall

SpecDrive == Init /\ [][NextDrive]_vars

(***************************************************************************)
(* ensure_destination on its own                                           *)
(***************************************************************************)
\* one call of ensure_destination(path, overwrite=ow); e is what it leaves; again
\* says that it repeats, with overwrite=true, the successful call just before it
EnsureApplied(path, ow, e) ==
  /\ calls < MaxCalls
  /\ fs' = e.fs
  /\ pre' = fs
  /\ res' = IF e.ok THEN Result(path) ELSE Raised(e.err)
  /\ io' = <<>>
  /\ call' = [NoCall EXCEPT !.op = "ensure", !.dest = path,
                            !.a = [overwrite |-> ow,
                                   again |-> /\ ow /\ call.op = "ensure" /\ call.dest = path
                                             /\ call.a.overwrite /\ res.status = "ok"]]
  /\ calls' = calls + 1

EnsureCall ==
  \E path \in {Dest, TargetRoot, SrcDir, SrcFile, Gone}, ow \in BOOLEAN :
    EnsureApplied(path, ow, EnsureDestination(fs, path, ow, 1))

NextEnsure == EnsureCall

SpecEnsure == Init /\ [][NextEnsure]_vars

(***************************************************************************)
(* Src/preprocessing/file_format.py: audio prepared for the models         *)
(***************************************************************************)
\* audio inputs in one call of prepare_audio_files
MaxInputs == 3

TARGET_EXTENSION == <<".", "w", "a", "v">>

\* _ffprobe_inspect(path): the first audio stream of the file, by what the file
\* holds; found is FALSE where the code returns None
FfprobeInspect(f, path) ==
  LET data == IF IsFile(f, path) THEN f[Real(f, path, MaxLinks)].data ELSE "" IN
  CASE data = "pcm16k" -> [found |-> TRUE, sample_rate |-> 16000, channels |-> 1, sample_fmt |-> "s16"]
    [] data = "pcm44k" -> [found |-> TRUE, sample_rate |-> 44100, channels |-> 2, sample_fmt |-> "s16"]
    [] data = "mp3" -> [found |-> TRUE, sample_rate |-> 44100, channels |-> 2, sample_fmt |-> "fltp"]
    [] OTHER -> [found |-> FALSE, sample_rate |-> 0, channels |-> 0, sample_fmt |-> ""]

\* _needs_conversion(path, info)
NeedsConversion(path, info) ==
  \/ ~info.found
  \/ Lower(Suffix(Last(path))) # TARGET_EXTENSION
  \/ info.sample_rate # 16000
  \/ info.channels # 1
  \/ info.sample_fmt \notin {"s16", "s16p"}

\* f"{index:03d}" for an index below 1000
Padded(index) ==
  IF index < 10 THEN <<"0", "0">> \o Decimal(index)
  ELSE IF index < 100 THEN <<"0">> \o Decimal(index) ELSE Decimal(index)

\* _make_output_path(temp_dir, original, index); Path.stem is the name without its
\* suffix
MakeOutputPath(f, temp_dir, original, index) ==
  LET name == Last(original)
      stem == SubSeq(name, 1, Len(name) - Len(Suffix(name)))
      base_name == IF stem # <<>> THEN stem ELSE <<"a", "u", "d", "i", "o", "_">> \o Padded(index)
      tail == <<"_", "p", "a", "r", "a", "k", "e", "e", "t">> \o TARGET_EXTENSION
      candidate == Append(temp_dir, base_name \o tail)
  IN IF Exists(f, candidate) THEN Append(temp_dir, base_name \o <<"_">> \o Padded(index) \o tail)
     ELSE candidate

\* _ffmpeg_convert(input_path, output_path): ffmpeg -y ... -i input output, with
\* check=True; it fails on an input that holds no audio
FfmpegConvert(f, input_path, output_path, g) ==
  IF ~FfprobeInspect(f, input_path).found THEN Fail("CalledProcessError", f)
  ELSE WriteFile(f, output_path, "pcm16k", g)

\* tempfile.mkdtemp(prefix="parakeet_audio_")
MkdTemp == Append(TmpDir, <<"p", "a", "r", "a", "k", "e", "e", "t", "_", "a", "u", "d", "i", "o", "_">>)

\* [ok, err, fs] of a file-system step together with the loop's temp_dir and
\* processed
Prepared(r, temp_dir, processed) ==
  [ok |-> r.ok, err |-> r.err, fs |-> r.fs, temp_dir |-> temp_dir, processed |-> processed]

RECURSIVE PrepareLoop(_, _, _, _, _, _)
\* the for loop of prepare_audio_files from index idx on
PrepareLoop(f, paths, idx, temp_dir, processed, g) ==
  IF idx >= Len(paths) THEN Prepared(Ok(f), temp_dir, processed)
  ELSE
  LET original_path == paths[idx + 1] IN
  IF ~Exists(f, original_path)
  THEN PrepareLoop(f, paths, idx + 1, temp_dir, processed, g)
  ELSE IF ~NeedsConversion(original_path, FfprobeInspect(f, original_path))
  THEN PrepareLoop(f, paths, idx + 1, temp_dir, Append(processed, original_path), g)
  ELSE
  LET made == IF temp_dir = NoPath THEN Mkdir(f, MkdTemp, g) ELSE Ok(f)
      output_path == MakeOutputPath(made.fs, MkdTemp, original_path, idx)
      conv == IF made.ok THEN FfmpegConvert(made.fs, original_path, output_path, g) ELSE made
  IN IF ~conv.ok THEN Prepared(conv, IF made.ok THEN MkdTemp ELSE temp_dir, processed)
     ELSE PrepareLoop(conv.fs, paths, idx + 1, MkdTemp, Append(processed, output_path), g)

\* a finally clause that leaves the temporary directory where it is
RemoveTempNever(f, temp_dir) == f

\* the finally clause of prepare_audio_files: shutil.rmtree(temp_dir,
\* ignore_errors=True) when a directory was created
RemoveTemp(f, temp_dir) ==
  IF temp_dir # NoPath THEN RmTree(f, temp_dir).fs ELSE f

\* prepare_audio_files(paths) from its call to its yield, or to the exception that
\* leaves it before the yield
PrepareAudioFiles(f, paths, g) ==
  IF paths = <<>> THEN Prepared(Ok(f), NoPath, <<>>)
  ELSE LET l == PrepareLoop(f, paths, 0, NoPath, <<>>, g) IN
       IF l.ok THEN l ELSE [l EXCEPT !.fs = RemoveTemp(l.fs, l.temp_dir)]

\* the audio files a caller names: good 16 kHz mono WAV, MP3s, a 44.1 kHz WAV, a
\* file that holds no audio, a path with nothing at it
AudioDir == <<<<"a", "u">>>>
AWav == Append(AudioDir, <<"a", ".", "w", "a", "v">>)
AMp3 == Append(AudioDir, <<"a", ".", "m", "p", "3">>)
A2Mp3 == Append(AudioDir, <<"a", "_", "0", "0", "2", ".", "m", "p", "3">>)
BWav == Append(AudioDir, <<"b", ".", "W", "A", "V">>)
Junk == Append(AudioDir, <<"j", ".", "w", "a", "v">>)
Missing == Append(AudioDir, <<"m", ".", "w", "a", "v">>)

AudioFs ==
  (TmpDir :> DirNode(0)) @@ (AudioDir :> DirNode(0))
  @@ (AWav :> Old("pcm16k")) @@ (AMp3 :> Old("mp3")) @@ (A2Mp3 :> Old("mp3"))
  @@ (BWav :> Old("pcm44k")) @@ (Junk :> Old("junk"))

InputLists ==
  UNION {[1..n -> {AWav, AMp3, A2Mp3, BWav, Junk, Missing}] : n \in 0..MaxInputs}

\* what the with statement got from the context manager
Yielded(processed) == [NoResult EXCEPT !.status = "yielded", !.files = processed]

InitPrepare ==
  /\ fs = AudioFs
  /\ pre = fs
  /\ call = NoCall
  /\ res = NoResult
  /\ io = <<>>
  /\ calls = 0

PrepareApplied(paths, r) ==
  /\ fs' = r.fs
  /\ pre' = fs
  /\ call' = [NoCall EXCEPT !.op = "prepare_audio_files", !.a = [paths |-> paths, yielded |-> r.ok, inside |-> r.ok, temp_dir |-> r.temp_dir]]
  /\ res' = IF r.ok THEN Yielded(r.processed) ELSE Raised(r.err)
  /\ io' = <<>>
  /\ calls' = calls + 1

\* with prepare_audio_files(paths) as prepared_paths: the context is entered
PrepareEnter ==
  /\ call.op = "none"
  /\ calls < MaxCalls
  /\ \E paths \in InputLists : PrepareApplied(paths, PrepareAudioFiles(fs, paths, 1))

\* the with-body ends, normally or by an exception raised inside it, and the
\* generator runs its finally clause
PrepareExit ==
  /\ call.op = "prepare_audio_files"
  /\ call.a.inside
  /\ \E raised \in {"", "SystemExit", "RuntimeError"} :
       res' = [res EXCEPT !.status = IF raised = "" THEN "ok" ELSE "error", !.err = raised]
  /\ fs' = RemoveTemp(fs, call.a.temp_dir)
  /\ call' = [call EXCEPT !.a.inside = FALSE]
  /\ UNCHANGED <<pre, io, calls>>

\* the caller is done with the context
PrepareSettle ==
  /\ call.op = "prepare_audio_files"
  /\ ~call.a.inside
  /\ Settle

NextPrepare ==
  \/ PrepareEnter
  \/ PrepareExit
  \/ PrepareSettle

SpecPrepare == InitPrepare /\ [][NextPrepare]_vars

(***************************************************************************)
(* Src/model/model_cache.py, Src/model/save_model.py, App/pipeline.py: the *)
(* cache of .nemo checkpoints and the pipeline that uses it                *)
(***************************************************************************)
\* "nvidia/parakeet-tdt-0.6b-v2" and "nvidia/diar_sortformer_4spk-v1", shortened
DEFAULT_PARAKEET_MODEL == <<"n", "/", "p">>
DEFAULT_SORTFORMER_MODEL == <<"n", "/", "s">>

DotNemo == <<".", "n", "e", "m", "o">>

RECURSIVE Replaced(_)
\* model_name.replace("/", "__").replace(" ", "_")
Replaced(cs) ==
  IF cs = <<>> THEN <<>>
  ELSE (IF Head(cs) = "/" THEN <<"_", "_">> ELSE IF Head(cs) = " " THEN <<"_">> ELSE <<Head(cs)>>)
         \o Replaced(Tail(cs))

\* safe_model_filename(model_name)
SafeModelFilename(model_name) == Replaced(model_name) \o DotNemo

\* candidate_dirs(): repo_root() / "Models", repo_root() / "models"
CandidateDirs == <<<<<<"M", "o", "d", "e", "l", "s">>>>, <<<<"m", "o", "d", "e", "l", "s">>>>>>

RECURSIVE FindIn(_, _, _)
\* the loop of find_local_checkpoint over dirs: every value it can return, NoPath
\* for None (directory.glob yields in the order the file system lists entries)
FindIn(f, safe_name, dirs) ==
  IF dirs = <<>> THEN {NoPath}
  ELSE LET directory == Head(dirs)
           candidate == Append(directory, safe_name)
           globbed == {q \in DOMAIN f : Front(q) = directory /\ EndsWith(Last(q), DotNemo)}
       IN IF Exists(f, candidate) THEN {candidate}
          ELSE IF Exists(f, directory) /\ globbed # {} THEN globbed
          ELSE FindIn(f, safe_name, Tail(dirs))

\* find_local_checkpoint(model_name)
FindLocalCheckpoint(f, model_name) == FindIn(f, SafeModelFilename(model_name), CandidateDirs)

\* what a step of the pipeline leaves: [ok, err, fs] and the models it touched
Stepped(r, log) == [ok |-> r.ok, err |-> r.err, fs |-> r.fs, io |-> log]

\* download_and_save(model_name, out_dir); fetch is what ASRModel.from_pretrained
\* does
DownloadAndSave(f, model_name, out_dir, fetch, g) ==
  LET made == Mkdir(f, out_dir, g)
      out_path == Append(out_dir, Replaced(model_name) \o DotNemo)
  IN IF ~made.ok THEN Stepped(made, <<>>)
     ELSE IF Exists(made.fs, out_path) THEN Stepped(made, <<>>)
     ELSE IF fetch # "ok" THEN Stepped(Fail(fetch, made.fs), <<Event("ASRModel.from_pretrained", model_name)>>)
     ELSE Stepped(WriteFile(made.fs, out_path, "nemo", g),
                  <<Event("ASRModel.from_pretrained", model_name), Event("save_to", out_path)>>)

\* _ensure_local_model(model_name), local being what find_local_checkpoint
\* returned; default_output_dir() is repo_root() / "models", created
EnsureLocalModel(f, model_name, local, fetch, g) ==
  IF local # NoPath /\ Exists(f, local) THEN Stepped(Ok(f), <<>>)
  ELSE LET out_dir == Mkdir(f, CandidateDirs[2], g) IN
       IF ~out_dir.ok THEN Stepped(out_dir, <<>>)
       ELSE LET d == DownloadAndSave(out_dir.fs, model_name, CandidateDirs[2], fetch, g) IN
            IF ~d.ok /\ d.err \in {"OSError", "RuntimeError", "ValueError"}
            THEN Stepped(Ok(d.fs), d.io)
            ELSE d

\* Parakeet.load_model(model_name), local being what find_local_checkpoint
\* returned: the model restored or fetched
LoadTranscriptionModel(model_name, local) ==
  IF local = NoPath THEN <<Event("ASRModel.from_pretrained", model_name)>>
  ELSE <<Event("ASRModel.restore_from", local)>>

\* Softformer.load_model(model_name), likewise; has_diarize tells whether the
\* restored model has a diarize attribute
LoadDiarizationModel(model_name, local, has_diarize) ==
  IF local = NoPath THEN <<Event("SortformerEncLabelModel.from_pretrained", model_name)>>
  ELSE IF has_diarize THEN <<Event("SortformerEncLabelModel.restore_from", local)>>
  ELSE <<Event("SortformerEncLabelModel.restore_from", local),
         Event("SortformerEncLabelModel.from_pretrained", model_name)>>

RESULTS_DIR == <<<<"r", "e", "s", "u", "l", "t", "s">>>>

\* _persist_results(entries): a fresh run directory with the combined JSON and
\* the CSV files
PersistResults(f, diarized, g) ==
  LET stamp == <<"T">>
      run_dir == IF Exists(f, Append(RESULTS_DIR, stamp)) THEN Append(RESULTS_DIR, stamp \o <<"_", "0", "1">>)
                 ELSE Append(RESULTS_DIR, stamp)
      made == Mkdir(f, run_dir, g)
      json == WriteFile(made.fs, Append(run_dir, <<"c", "o", "m", "b", "i", "n", "e", "d">>), "json", g)
      asr == WriteFile(json.fs, Append(run_dir, <<"A", "S", "R">>), "csv", g)
  IN IF ~made.ok \/ ~json.ok \/ ~asr.ok THEN f
     ELSE IF diarized THEN WriteFile(asr.fs, Append(run_dir, <<"S", "D">>), "csv", g).fs
     ELSE asr.fs

\* the file systems the cache may be in before a call: each candidate directory
\* absent or holding some of the two models' checkpoints and another one
CacheFiles == {SafeModelFilename(DEFAULT_PARAKEET_MODEL), SafeModelFilename(DEFAULT_SORTFORMER_MODEL), <<"x">> \o DotNemo}
CacheDir(d, held) == (d :> DirNode(0)) @@ [q \in {Append(d, n) : n \in held} |-> Old("nemo")]
CacheFs ==
  {AudioFs @@ up @@ low :
     up \in {<<>>} \cup {CacheDir(CandidateDirs[1], h) : h \in SUBSET CacheFiles},
     low \in {<<>>} \cup {CacheDir(CandidateDirs[2], h) : h \in SUBSET CacheFiles}}

PipelineArgs ==
  [files : {<<AWav>>, <<BWav, AWav>>, <<Junk>>, <<Missing>>}, model : {DEFAULT_PARAKEET_MODEL},
   diarization_model : {DEFAULT_SORTFORMER_MODEL}, diarize : BOOLEAN,
   fetch : {"ok", "OSError"}, diar_fetch : {"ok", "OSError"}, has_diarize : BOOLEAN]

InitCache ==
  /\ fs \in CacheFs
  /\ pre = fs
  /\ call = NoCall
  /\ res = NoResult
  /\ io = <<>>
  /\ calls = 0

\* one call of find_local_checkpoint(model_name)
FindLocalCheckpointCall ==
  /\ call.op = "none"
  /\ calls < MaxCalls
  /\ \E model_name \in {DEFAULT_PARAKEET_MODEL, DEFAULT_SORTFORMER_MODEL} :
       \E local \in FindLocalCheckpoint(fs, model_name) :
         /\ call' = [NoCall EXCEPT !.op = "find_local_checkpoint", !.a = [model_name |-> model_name]]
         /\ res' = Result(local)
  /\ io' = <<>>
  /\ pre' = fs
  /\ calls' = calls + 1
  /\ UNCHANGED fs

\* run_pipeline has returned or raised: the with statement is left, the
\* temporary directory removed
PipelineDone(a, f, r, log, temp_dir) ==
  /\ fs' = RemoveTemp(f, temp_dir)
  /\ pre' = fs
  /\ call' = [NoCall EXCEPT !.op = "run_pipeline", !.a = a]
  /\ res' = r
  /\ io' = log
  /\ calls' = calls + 1

\* run_pipeline after the diarization model was looked for again by load_model
PipelineDiarized(a, e2, log, temp_dir) ==
  \E local \in FindLocalCheckpoint(e2.fs, a.diarization_model) :
    PipelineDone(a, PersistResults(e2.fs, TRUE, 1), [NoResult EXCEPT !.status = "ok"],
                 log \o LoadDiarizationModel(a.diarization_model, local, a.has_diarize),
                 temp_dir)

\* run_pipeline after _ensure_local_model(diar_model_name); an OSError that
\* escapes it is reported as a failed audio preparation
PipelineEnsured(a, e, log, temp_dir) ==
  IF ~e.ok THEN PipelineDone(a, e.fs, RaisedWith("SystemExit", <<"3">>), log \o e.io, temp_dir)
  ELSE PipelineDiarized(a, e, log \o e.io, temp_dir)

\* run_pipeline after the transcription: results returned, or the diarization
\* model ensured
PipelineTranscribed(a, e1, log, temp_dir) ==
  IF ~a.diarize
  THEN PipelineDone(a, PersistResults(e1.fs, FALSE, 1), [NoResult EXCEPT !.status = "ok"], log, temp_dir)
  ELSE \E local \in FindLocalCheckpoint(e1.fs, a.diarization_model) :
         PipelineEnsured(a, EnsureLocalModel(e1.fs, a.diarization_model, local, a.diar_fetch, 1), log, temp_dir)

\* run_pipeline inside the with statement, the transcription model ensured
PipelinePrepared(a, e1, temp_dir) ==
  IF ~e1.ok THEN PipelineDone(a, e1.fs, RaisedWith("SystemExit", <<"3">>), e1.io, temp_dir)
  ELSE \E local \in FindLocalCheckpoint(e1.fs, a.model) :
         PipelineTranscribed(a, e1, e1.io \o LoadTranscriptionModel(a.model, local), temp_dir)

\* run_pipeline from prepare_audio_files on
PipelineStarted(a, p) ==
  IF ~p.ok THEN PipelineDone(a, p.fs, RaisedWith("SystemExit", <<"3">>), <<>>, NoPath)
  ELSE IF p.processed = <<>> THEN PipelineDone(a, p.fs, RaisedWith("SystemExit", <<"2">>), <<>>, p.temp_dir)
  ELSE \E local \in FindLocalCheckpoint(p.fs, a.model) :
         PipelinePrepared(a, EnsureLocalModel(p.fs, a.model, local, a.fetch, 1), p.temp_dir)

\* run_pipeline(files, model=, diarize=, diarization_model=)
RunPipelineCall ==
  /\ call.op = "none"
  /\ calls < MaxCalls
  /\ \E a \in PipelineArgs :
       LET paths == SelectSeq(a.files, LAMBDA p : Exists(fs, p)) IN
       IF paths = <<>> THEN PipelineDone(a, fs, RaisedWith("SystemExit", <<"2">>), <<>>, NoPath)
       ELSE PipelineStarted(a, PrepareAudioFiles(fs, paths, 1))

NextCache ==
  \/ FindLocalCheckpointCall
  \/ RunPipelineCall
  \/ Settle

SpecCache == InitCache /\ [][NextCache]_vars

(***************************************************************************)
(* Properties                                                              *)
(***************************************************************************)
Called == call.op # "none"
Succeeded == Called /\ res.status = "ok"
Failed == Called /\ res.status = "error"

\* what is at p and below it, also behind a link at p
Tree(f, p) ==
  LET r == Real(f, p, MaxLinks) IN
  [q \in {q \in DOMAIN f : IsAtOrUnder(q, p) \/ IsAtOrUnder(q, r)} |-> f[q]]

\* p is a directory with something in it
NonEmpty(f, p) ==
  IsDir(f, p) /\ \E q \in DOMAIN f : IsUnder(q, Real(f, p, MaxLinks))

\* the network requests and subprocess runs of a log
Requests(log) == SelectSeq(log, LAMBDA e : e.ev \in {"get", "run", "s3", "hub"})
\* the paths response bodies were streamed to, in order
Saves(log) == SelectSeq(log, LAMBDA e : e.ev = "save")

\* C1: a download with overwrite=false onto a destination that exists and is
\* non-empty fails with DatasetDownloadError and leaves what is at the destination
\* exactly as it was, for every backend and for both local modes.
C1_NoOverwriteFailsUnchanged ==
  (Called /\ ~call.a.overwrite /\ NonEmpty(pre, call.dest))
    => /\ Failed
       /\ res.err = DDE
       /\ Tree(fs, call.dest) = Tree(pre, call.dest)

C1_Witness ==
  /\ Called /\ ~call.a.overwrite /\ NonEmpty(pre, call.dest)
  /\ Failed /\ res.err = DDE
  /\ call.cls = "S3Downloader"

\* C2: a download with overwrite=true onto an existing destination (a regular file,
\* a directory tree or a symbolic link) that returns successfully leaves at and
\* below the destination only what this call wrote: nothing of the prior
\* population survives unless the call wrote it again.
C2_OverwriteReplaces ==
  (Succeeded /\ call.a.overwrite /\ LExists(pre, call.dest))
    => \A q \in DOMAIN fs : IsAtOrUnder(q, call.dest) => fs[q].gen = 1

C2_Witness ==
  /\ Succeeded /\ call.a.overwrite
  /\ Append(call.dest, <<"o", "l", "d">>) \in DOMAIN pre
  /\ Append(call.dest, <<"o", "l", "d">>) \notin DOMAIN fs
  /\ \E q \in DOMAIN fs : IsUnder(q, call.dest)

\* C3: whenever a download returns a DownloadResult, dataset_path exists on disk,
\* and so does every path listed in details["files"] when that key is present.
C3_ResultPathsExist ==
  Succeeded
    => /\ Exists(fs, res.dataset_path)
       /\ res.hasFiles => \A p \in res.files : Exists(fs, p)

\* C4: every failure of a download call reaches the caller as
\* DatasetDownloadError and never as another exception kind.
C4_OnlyDatasetDownloadError == Failed => res.err = DDE

\* both url and urls, or neither (an empty list, or only empty strings)
HTTPBadConfig(a) ==
  \/ a.url # NoUrl /\ a.urls # <<>>
  \/ a.url = NoUrl /\ \A i \in 1..Len(a.urls) : a.urls[i] = NoUrl
\* both dataset and competition, or neither
KaggleBadConfig(a) == (a.dataset # <<>>) = (a.competition # <<>>)
\* release_tag without asset_name
GitHubBadConfig(a) == a.release_tag # <<>> /\ a.asset_name = <<>>

ConfigError ==
  \/ call.cls = "HTTPDownloader" /\ HTTPBadConfig(call.a)
  \/ call.cls = "KaggleDownloader" /\ KaggleBadConfig(call.a)
  \/ call.cls = "GitHubDownloader" /\ GitHubBadConfig(call.a)

\* C8: a call with a configuration error (HTTP both url and urls or neither,
\* Kaggle both or neither of dataset and competition, GitHub release_tag without
\* asset_name) starts no network request and no subprocess, and the destination
\* is neither created nor cleared.
C8_ConfigErrorNoSideEffect ==
  (call.op = "download" /\ ConfigError)
    => /\ Requests(io) = <<>>
       /\ Tree(fs, call.dest) = Tree(pre, call.dest)

\* C9: the HTTP backend given both url and urls or neither, and the Kaggle backend
\* given both dataset and competition or neither, fail with DatasetDownloadError
\* and issue no network request and no subprocess.
C9_ExactlyOneOf ==
  (/\ call.op = "download"
   /\ \/ call.cls = "HTTPDownloader" /\ HTTPBadConfig(call.a)
      \/ call.cls = "KaggleDownloader" /\ KaggleBadConfig(call.a))
    => /\ Failed
       /\ res.err = DDE
       /\ Requests(io) = <<>>

\* the synonym groups of source keys
SynonymGroups ==
  {{<<"g", "i", "t", "h", "u", "b">>, <<"g", "h">>},
   {<<"h", "u", "g", "g", "i", "n", "g", "f", "a", "c", "e">>, <<"h", "f">>},
   {<<"g", "o", "o", "g", "l", "e", "_", "d", "r", "i", "v", "e">>, <<"g", "d", "r", "i", "v", "e">>},
   {<<"k", "a", "g", "g", "l", "e">>},
   {<<"h", "t", "t", "p">>, <<"h", "t", "t", "p", "s">>, <<"u", "r", "l">>},
   {<<"s", "3">>, <<"a", "w", "s">>},
   {<<"l", "o", "c", "a", "l">>, <<"f", "i", "l", "e", "s", "y", "s", "t", "e", "m">>}}

\* source is a key of group G in some letter case
InGroup(source, G) == \E k \in G : Upper(source) = Upper(k)

\* the class download_dataset constructs for key k on the call's other arguments
ClassFor(k) == DownloadDataset(pre, k, call.name, call.root, call.a, 1).cls

\* C5: download_dataset resolves the source key case-insensitively and every key
\* of a synonym group, in any letter case, constructs the same downloader class:
\* the class constructed for the source as spelled is the class constructed for
\* each key of its group.
C5_SynonymsSameClass ==
  call.op = "download_dataset"
    => \A G \in SynonymGroups :
         InGroup(call.source, G)
           => /\ call.cls # ""
              /\ \A k \in G : call.cls = ClassFor(k)

C5_Witness ==
  /\ call.op = "download_dataset"
  /\ call.source = <<"G", "H">>
  /\ call.cls = "GitHubDownloader"
  /\ ClassFor(<<"g", "i", "t", "h", "u", "b">>) = "GitHubDownloader"

\* the call failed as an unknown source does: DatasetDownloadError, no backend
\* constructed, no directory created, nothing requested
FailedAsUnknown ==
  /\ Failed
  /\ res.err = DDE
  /\ call.cls = ""
  /\ fs = pre
  /\ io = <<>>

\* C6 as stated: a source key outside the supported set fails at once with
\* DatasetDownloadError, creating no directory and constructing no backend, and
\* the keys that do not fail this way are exactly those available_sources() lists.
C6_UnknownExactlyOutsideList ==
  call.op = "download_dataset"
    => (FailedAsUnknown <=> call.source \notin AvailableSources)

\* C6: a source key whose lower-case form is outside the supported set fails at
\* once with DatasetDownloadError, creating no directory and constructing no
\* backend, and the keys that do not fail this way are exactly those whose
\* lower-case form available_sources() lists.
C6_UnknownExactlyOutsideListFolded ==
  call.op = "download_dataset"
    => /\ FailedAsUnknown <=> Lower(call.source) \notin AvailableSources
       /\ Lower(call.source) \in AvailableSources => call.cls # ""

C6_Witness ==
  /\ call.op = "download_dataset"
  /\ call.source = <<"f", "t", "p">>
  /\ call.root = NoRoot
  /\ DATASETS_ROOT \notin DOMAIN pre
  /\ FailedAsUnknown

\* the destination the arguments of the call stand for
Forwarded ==
  LET targetRoot == IF call.root = NoRoot THEN DATASETS_ROOT ELSE call.root IN
  IF call.name # <<>> THEN Append(targetRoot, call.name) ELSE targetRoot

\* C7: download_dataset forwards to the backend the destination
\* targetRoot/datasetName when a name is given and targetRoot otherwise,
\* targetRoot being the caller's target_root or else the default root, which is
\* created if absent; a returned result's dataset_path is that destination.
C7_DestinationForwarded ==
  (call.op = "download_dataset" /\ call.dest # NoPath)
    => /\ call.dest = Forwarded
       /\ Succeeded => res.dataset_path = Forwarded
       /\ (call.root = NoRoot /\ call.name # <<>>) => IsDir(fs, DATASETS_ROOT)
       /\ (call.root # NoRoot /\ call.name # <<>>) => IsDir(fs, call.root)

C7_Witness ==
  /\ call.op = "download_dataset"
  /\ call.root = NoRoot
  /\ call.name = Ds
  /\ DATASETS_ROOT \notin DOMAIN pre
  /\ Succeeded
  /\ res.dataset_path = Append(DATASETS_ROOT, Ds)
  /\ IsDir(fs, Append(DATASETS_ROOT, Ds))

\* C10: given urls=[u1, u2] and no explicit filename, the two downloaded files
\* have distinct names.
C10_TwoUrlsDistinctNames ==
  (/\ call.cls = "HTTPDownloader"
   /\ call.a.url = NoUrl
   /\ Len(call.a.urls) = 2
   /\ ~Given(call.a.filename)
   /\ Len(Saves(io)) = 2)
    => Saves(io)[1].arg # Saves(io)[2].arg

\* the requests, and the responses read, of a log
Gets(log) == SelectSeq(log, LAMBDA e : e.ev = "get")
Reads(log) == SelectSeq(log, LAMBDA e : e.ev = "read")

\* a consumer-drive call that got as far as its first request
DriveRequested == Called /\ call.cls = "GoogleDriveDownloader" /\ io # <<>>

\* C11: when the first response carries a cookie whose name matches the
\* download_warning pattern, exactly one more request is issued, it carries that
\* cookie's value as confirm, the first response is closed before it, and only
\* the second response is streamed; with no such cookie there is one request
\* and the first response is streamed.
C11_ConfirmationFlow ==
  DriveRequested =>
    LET cookies == call.a.cookies
        matching == {i \in DOMAIN cookies : ConfirmPattern(cookies[i].name)}
    IN IF matching # {}
       THEN /\ Len(Gets(io)) = 2
            /\ io[1].ev = "get" /\ io[2].ev = "close" /\ io[3].ev = "get"
            /\ io[3].arg.confirm \in {cookies[i].value : i \in matching}
            /\ \A k \in DOMAIN Reads(io) : Reads(io)[k].arg = 2
       ELSE /\ Len(Gets(io)) = 1
            /\ \A k \in DOMAIN Reads(io) : Reads(io)[k].arg = 1

\* nodes the current call wrote below p
WrittenBelow(f, p) == {q \in DOMAIN f : IsUnder(q, p) /\ f[q].gen = 1}

\* C12: a non-2xx status of the first response, or of the response to the
\* request carrying the confirmation token, makes the consumer-drive download
\* fail with DatasetDownloadError and nothing is streamed to the destination.
C12_NonOkFails ==
  (DriveRequested /\ (~call.a.ok1 \/ (Len(Gets(io)) = 2 /\ ~call.a.ok2))) =>
    /\ Failed /\ res.err = DDE
    /\ Reads(io) = <<>>
    /\ WrittenBelow(fs, call.dest) = {}

\* t occurs in s
Contains(s, t) == \E i \in 0..(Len(s) - Len(t)) : SubSeq(s, i + 1, i + Len(t)) = t

\* C13: with no Kaggle executable given and none on the search path the
\* constructor raises DatasetDownloadError, download is not invoked and no
\* subprocess runs; when the command line runs and exits non-zero, download
\* raises DatasetDownloadError carrying the captured stderr text, or the captured
\* stdout text when stderr is empty.
C13_KaggleFailures ==
  (Called /\ call.cls = "KaggleDownloader") =>
    /\ (call.a.kaggle_executable = <<>> /\ ~call.a.cli_found) =>
          Failed /\ res.err = DDE /\ io = <<>> /\ fs = pre
    /\ (io # <<>> /\ call.a.exit # 0) =>
          /\ Failed /\ res.err = DDE
          /\ IF call.a.stderr # <<>> THEN Contains(res.msg, Strip(call.a.stderr))
             ELSE Contains(res.msg, Strip(call.a.stdout))

\* a run that failed printing only to stdout
C13_Witness ==
  /\ Called /\ call.cls = "KaggleDownloader" /\ io # <<>> /\ call.a.exit # 0
  /\ call.a.stderr = <<>> /\ call.a.stdout = Usage /\ Failed
  /\ res.msg = KaggleFailed \o Usage

\* the paths below p, relative to p
Below(f, p) == {SubSeq(q, Len(p) + 1, Len(q)) : q \in {r \in DOMAIN f : IsUnder(r, p)}}

\* the top-level members of an archive, and whether the only one is a directory
TopLevel(pl) == {e \in Entries(pl) : Len(e.path) = 1}
SoleRootDir(pl) == \E e \in TopLevel(pl) : TopLevel(pl) = {e} /\ e.kind = "dir"
\* the members inside the wrapping directory, relative to it
InsideRoot(pl) == {[path |-> Tail(e.path), kind |-> e.kind] : e \in Entries(pl) \ TopLevel(pl)}

\* a successful GitHub call that unpacked the zip it fetched, whole
GitHubUnpacked ==
  /\ Succeeded /\ call.cls = "GitHubDownloader" /\ call.a.extract
  /\ PayloadFormat(call.a.payload) = "zip" /\ call.a.subdir = <<>>
  /\ (call.a.release_tag = <<>> \/ Suffix(call.a.asset_name) = DotZip)
\* the kept archive, relative to the destination
GitHubKept ==
  IF ~call.a.keep_archive THEN {}
  ELSE IF call.a.release_tag = <<>> THEN {<<ArchiveLabel(call.a.repo, call.a.ref)>>}
  ELSE {<<call.a.asset_name>>}

\* C14: extracting a zip whose sole top-level entry is a directory X into the
\* destination leaves, as the destination's children, the entries that were
\* inside X (with what is below them), and no child X from the wrapper.
C14_SingleRootCollapse ==
  (GitHubUnpacked /\ SoleRootDir(call.a.payload)) =>
    /\ Below(fs, call.dest) \ GitHubKept = {e.path : e \in InsideRoot(call.a.payload)}
    /\ \A e \in InsideRoot(call.a.payload) : KindAt(fs, call.dest \o e.path) = e.kind
    /\ \A e \in TopLevel(call.a.payload) : e.path \notin Below(fs, call.dest)

C14_Witness ==
  /\ GitHubUnpacked /\ call.a.payload = "wrapped" /\ ~call.a.keep_archive
  /\ Below(fs, call.dest) = {<<<<"a">>>>, <<<<"s">>>>, <<<<"s">>, <<"b">>>>}

\* a GitHub call that fetched a zip and was to unpack it whole
GitHubUnpacking ==
  /\ Called /\ call.cls = "GitHubDownloader" /\ io # <<>> /\ call.a.status = "ok"
  /\ call.a.extract /\ PayloadFormat(call.a.payload) = "zip" /\ call.a.subdir = <<>>
  /\ \/ call.a.release_tag = <<>>
     \/ call.a.meta = "ok" /\ Suffix(call.a.asset_name) = DotZip

\* C15: extracting an archive with zero or several top-level entries (several
\* top-level files and no directory; one top-level directory next to top-level
\* files) leaves the archive's entries, unchanged, as the destination's tree.
C15_FlatArchives ==
  (GitHubUnpacking /\ ~SoleRootDir(call.a.payload)) =>
    /\ Succeeded
    /\ Below(fs, call.dest) \ GitHubKept = {e.path : e \in Entries(call.a.payload)}
    /\ \A e \in Entries(call.a.payload) : KindAt(fs, call.dest \o e.path) = e.kind

\* the names of the entries of directory p
Children(f, p) == {Last(q) : q \in {r \in DOMAIN f : Front(r) = p}}

\* the archive a call received
Received == IF call.cls = "HTTPDownloader" THEN call.a.responses[1].payload ELSE call.a.payload

\* a successful call of a backend with extract=true that fetched a zip under a
\* name ending in .zip
Unpacked ==
  /\ Succeeded
  /\ call.cls \in {"GitHubDownloader", "GoogleDriveDownloader", "HTTPDownloader", "S3Downloader"}
  /\ call.a.extract /\ PayloadFormat(Received) = "zip"
  /\ call.cls = "GoogleDriveDownloader" => (call.a.file_name = DZip \/ call.a.disposition = DZip)
  /\ call.cls = "GitHubDownloader" => GitHubUnpacked
\* ... and did not keep it
Extracted == Unpacked /\ ~call.a.keep_archive

\* the GitHub call for archive pl: the repository zipball, extracted whole
GitHubReference(pl) ==
  [overwrite |-> TRUE, repo |-> <<"o", "/", "r">>, ref |-> <<"m">>, subdir |-> <<>>,
   release_tag |-> <<>>, asset_name |-> <<>>, meta |-> "ok", status |-> "ok",
   extract |-> TRUE, keep_archive |-> FALSE, payload |-> pl]

\* C16: for the same archive with one wrapping top-level directory, the GitHub,
\* Google Drive, HTTP and S3 backends with extract=true leave the same set of
\* immediate children in the destination (each compared with what the GitHub
\* backend leaves from the same starting state).
C16_SameCollapseEverywhere ==
  (Extracted /\ SoleRootDir(Received)) =>
    Children(fs, call.dest)
      = Children(GitHubDownload(pre, call.dest, GitHubReference(Received), 1).fs, call.dest)

\* the .zip files the current call left, anywhere
ZipFiles(f) ==
  {q \in DOMAIN f : f[q].kind = "file" /\ f[q].gen = 1 /\ EndsWith(Last(q), DotZip)}

\* a successful Kaggle call with unzip
KaggleUnzipped == Succeeded /\ call.cls = "KaggleDownloader" /\ call.a.unzip

\* C17: after a successful extraction by the GitHub, Google Drive, HTTP, S3 or
\* Kaggle (unzip) backend the archive exists nowhere, unless keep_archive=true,
\* and then it is in the destination next to the extracted tree.
C17_ArchiveRemovedOrKept ==
  (Unpacked \/ KaggleUnzipped) =>
    IF call.a.keep_archive
    THEN ZipFiles(fs) # {} /\ \A q \in ZipFiles(fs) : Front(q) = call.dest
    ELSE ZipFiles(fs) = {}

\* C18: when a download call has ended, however it ended, no temporary file or
\* directory it created (the GitHub archive or release-asset file, the scratch
\* directory of the extraction) is left.
C18_TemporariesRemoved ==
  Called => WrittenBelow(fs, TmpDir) = {}

\* what is at p and below it, relative to p: kinds and content
Content(f, p) ==
  [r \in {SubSeq(q, Len(p) + 1, Len(q)) : q \in {x \in DOMAIN f : IsAtOrUnder(x, p)}} |->
     [kind |-> f[p \o r].kind, data |-> f[p \o r].data]]

\* a successful local import in copy mode
LocalCopied == Succeeded /\ call.cls = "LocalDatasetImporter" /\ ~call.a.symlink

\* C19: copy mode leaves in the destination exactly the tree of a source
\* directory, with the same content per file, or the single source file under
\* its own name, and leaves the source as it was.
C19_CopyMode ==
  LocalCopied =>
    /\ IsDir(pre, call.a.source) =>
          /\ IsDir(fs, call.dest)
          /\ Content(fs, call.dest) = Content(pre, call.a.source)
    /\ IsFile(pre, call.a.source) =>
          /\ Children(fs, call.dest) = {Last(call.a.source)}
          /\ Content(fs, Append(call.dest, Last(call.a.source))) = Content(pre, call.a.source)
    /\ Content(fs, call.a.source) = Content(pre, call.a.source)

\* a generic-HTTP call that got as far as its loop over the targets
HTTPRequested == Called /\ call.cls = "HTTPDownloader" /\ io # <<>>
Targets == NormaliseUrls(call.a.url, call.a.urls)
\* the requests answered with a non-2xx status, among those the targets need
Refused == {k \in 1..Len(Targets) : ~call.a.responses[k].ok}
\* the same call with only its first n targets
FirstTargets(n) == [call.a EXCEPT !.url = NoUrl, !.urls = SubSeq(Targets, 1, n)]

\* C20: the generic-HTTP backend requests its URLs in list order, each request
\* issued only when the file of the URL before it is written (and extracted when
\* extract=true); the first non-2xx response makes the call raise
\* DatasetDownloadError, no later URL is requested, and what the earlier URLs
\* left in the destination stays.
C20_InOrderStopAtFirstFailure ==
  HTTPRequested =>
    /\ Len(Gets(io)) <= Len(Targets)
    /\ \A k \in 1..Len(Gets(io)) : Gets(io)[k].arg = Targets[k]
    /\ io[1].ev = "get"
    /\ \A i \in 2..Len(io) :
          io[i].ev = "get" => io[i - 1].ev = (IF call.a.extract THEN "extract" ELSE "save")
    /\ \A i \in 2..Len(io) : io[i].ev = "extract" => io[i - 1].ev = "save"
    /\ \A i \in 2..Len(io) : io[i].ev = "save" => io[i - 1].ev = "get"
    /\ IF Refused = {}
       THEN Len(Gets(io)) = Len(Targets)
       ELSE LET k == CHOOSE j \in Refused : \A l \in Refused : j <= l IN
            /\ Failed /\ res.err = DDE
            /\ Len(Gets(io)) = k /\ io[Len(io)].ev = "get"
            /\ fs = HTTPDownload(pre, call.dest, FirstTargets(k - 1), 1).fs

\* three URLs, the third refused after two archives were written and extracted
C20_Witness ==
  /\ HTTPRequested /\ Len(Targets) = 3 /\ call.a.extract /\ Refused = {3} /\ Failed
  /\ Len(Gets(io)) = 3 /\ Len(Saves(io)) = 2
  /\ WrittenBelow(fs, call.dest) # {}

\* a local import, in either mode
LocalCalled == Called /\ call.cls = "LocalDatasetImporter"

\* C21: copy mode runs the create-empty-directory lifecycle; symlink mode needs
\* the destination path to be absent (also as a dangling link) unless
\* overwrite=true removes it, and then makes the destination one symbolic link
\* to the resolved source; in both modes a non-existent source, and an existing
\* destination without overwrite=true, fail with DatasetDownloadError.
C21_LocalLifecycles ==
  LocalCalled =>
    /\ ~Exists(pre, call.a.source) => Failed /\ res.err = DDE
    /\ (Exists(pre, call.a.source) /\ LExists(pre, call.dest) /\ ~call.a.overwrite) =>
          Failed /\ res.err = DDE
    /\ (Succeeded /\ call.a.symlink) =>
          /\ ~LExists(pre, call.dest) \/ call.a.overwrite
          /\ KindAt(fs, call.dest) = "link"
          /\ fs[call.dest].to = Real(pre, call.a.source, MaxLinks)
          /\ fs[call.dest].gen = 1
    /\ (Succeeded /\ ~call.a.symlink) =>
          /\ ~LExists(pre, call.dest) \/ call.a.overwrite
          /\ KindAt(fs, call.dest) = "dir"
          /\ fs[call.dest].gen = 1

\* a call of ensure_destination on a path that was absent, a regular file or a
\* directory
EnsureCalled == call.op = "ensure" /\ KindAt(pre, LPath(pre, call.dest)) \in {"none", "file", "dir"}

\* C22: ensure_destination(path, overwrite=true) ends, from an absent path, a
\* regular file or a directory tree, with path an existing empty directory; a
\* second such call right after succeeds and leaves the same state; with
\* overwrite=false it succeeds only when path is absent.
C22_EnsureDestination ==
  /\ (EnsureCalled /\ call.a.overwrite) =>
        /\ Succeeded
        /\ KindAt(fs, call.dest) = "dir"
        /\ Below(fs, call.dest) = {}
  /\ (call.op = "ensure" /\ call.a.again) => Succeeded /\ fs = pre
  /\ (call.op = "ensure" /\ ~call.a.overwrite /\ Succeeded) =>
        /\ ~LExists(pre, call.dest)
        /\ KindAt(fs, call.dest) = "dir" /\ Below(fs, call.dest) = {}
  /\ (EnsureCalled /\ ~call.a.overwrite /\ ~LExists(pre, call.dest)) => Succeeded

\* the second of two overwriting calls on what was a directory with content
C22_Witness ==
  /\ call.op = "ensure" /\ call.a.again /\ call.dest = SrcDir /\ Succeeded
  /\ KindAt(fs, SrcDir) = "dir" /\ Below(fs, SrcDir) = {} /\ fs = pre

\* a GitHub call for a release asset that got as far as its first request
ReleaseRequested ==
  /\ Called /\ call.cls = "GitHubDownloader" /\ io # <<>>
  /\ call.a.release_tag # <<>> /\ call.a.asset_name # <<>>

\* C23: in the release flow the metadata request comes first; the asset is
\* requested only when the metadata lists an asset named asset_name; a release
\* without that asset fails with the "asset not found" DatasetDownloadError and
\* no asset request; a non-2xx metadata response fails before the asset list
\* is read.
C23_ReleaseMetadataFirst ==
  ReleaseRequested =>
    /\ io[1].ev = "get" /\ io[1].arg = "release"
    /\ \A i \in DOMAIN io :
          (io[i].ev = "get" /\ io[i].arg = "asset") => (i = 2 /\ call.a.meta = "ok")
    /\ call.a.meta = "noasset" =>
          /\ Failed /\ res.err = DDE
          /\ res.msg = AssetNotFound(call.a.asset_name, call.a.release_tag)
          /\ Len(Gets(io)) = 1
    /\ call.a.meta \in {"bad", "badnoasset"} =>
          /\ Failed /\ res.err = DDE
          /\ ~Contains(res.msg, <<"n", "o", "t", " ", "f", "o", "u", "n", "d">>)
          /\ Len(Gets(io)) = 1

\* a release that does not list the asset
C23_Witness ==
  /\ ReleaseRequested /\ call.a.meta = "noasset" /\ Failed
  /\ Contains(res.msg, <<"n", "o", "t", " ", "f", "o", "u", "n", "d">>)
  /\ Len(io) = 1

\* a repository-archive or consumer-drive call whose transfer broke mid-stream
StreamBroken ==
  /\ Called /\ io # <<>>
  /\ \/ /\ call.cls = "GitHubDownloader" /\ call.a.release_tag = <<>>
        /\ call.a.status = "ok" /\ call.a.payload = "cut"
     \/ /\ call.cls = "GoogleDriveDownloader" /\ Reads(io) # <<>>
        /\ call.a.payload = "cut"

\* C24: the repository-archive and the consumer-drive backends stream to a
\* temporary file outside the destination, so a transfer that fails mid-stream
\* leaves no partial payload file inside the destination.
C24_NoPartialInDestination ==
  StreamBroken => \A q \in WrittenBelow(fs, call.dest) : fs[q].kind # "file"

\* a call through the registry, for a known source, with no dataset_name
RootCall ==
  /\ Called /\ call.op = "download_dataset" /\ call.name = <<>>
  /\ SourceKey(call.source) \in DOMAIN DOWNLOADERS

\* C25: download_dataset creates the destination root before it calls the
\* backend, so without dataset_name and with overwrite=false the call fails with
\* DatasetDownloadError for every backend, whatever was on disk before; it can
\* succeed only with overwrite=true, and then nothing that was below the root is
\* left.
C25_RootNeedsOverwrite ==
  RootCall =>
    /\ ~call.a.overwrite => Failed /\ res.err = DDE
    /\ Succeeded =>
          /\ call.a.overwrite
          /\ \A q \in DOMAIN fs : IsUnder(q, call.dest) => fs[q].gen = 1

\* C26: within one generic-HTTP call, for any list of URLs, with or without an
\* explicit filename, no two URLs are written to the same file path of the
\* destination, so no payload of the batch is overwritten by a later one.
C26_NoTwoUrlsSamePath ==
  (Called /\ call.cls = "HTTPDownloader")
    => \A i, j \in 1..Len(Saves(io)) : i # j => Saves(io)[i].arg # Saves(io)[j].arg

\* C27: the local importer checks that the source exists before it changes
\* anything: when the source path does not exist the call fails and the file
\* system is exactly what it was, in copy mode and in symlink mode, also with
\* overwrite=true and a destination that holds content.
C27_MissingSourceLeavesDestination ==
  (LocalCalled /\ ~Exists(pre, call.a.source)) => Failed /\ fs = pre

C27_Witness ==
  /\ LocalCalled
  /\ ~Exists(pre, call.a.source)
  /\ call.a.overwrite
  /\ call.a.symlink
  /\ NonEmptyDir(pre, call.dest)
  /\ Failed
  /\ NonEmptyDir(fs, call.dest)

\* a call with overwrite=true onto a destination that was a link to a directory
OntoLink ==
  /\ Called /\ call.op = "download" /\ call.a.overwrite
  /\ KindAt(pre, call.dest) = "link" /\ IsDir(pre, call.dest)
\* what f holds at and below d
Subtree(f, d) == [q \in {r \in DOMAIN f : IsAtOrUnder(r, d)} |-> f[q]]

\* C28: once a symlink-mode import has made the destination a link to a source
\* directory, a later download onto that destination with overwrite=true (either
\* mode of the importer, or another backend) leaves the linked source as it was:
\* it either removes the link itself and goes on, or fails with link and source
\* intact.
C28_LinkedSourceUntouched ==
  OntoLink =>
    /\ Subtree(fs, pre[call.dest].to) = Subtree(pre, pre[call.dest].to)
    /\ \/ call.dest \notin DOMAIN fs \/ fs[call.dest].gen = 1
       \/ Failed /\ fs[call.dest] = pre[call.dest]

C28_Witness ==
  /\ OntoLink
  /\ call.cls = "LocalDatasetImporter" /\ call.a.symlink /\ call.a.source = SrcFile
  /\ pre[call.dest].to = SrcDir
  /\ Succeeded
  /\ fs[call.dest].to = SrcFile
  /\ NonEmptyDir(fs, SrcDir)

\* the checkpoint file of a model name is in a candidate directory of f
Cached(f, model_name) ==
  \E i \in 1..Len(CandidateDirs) : Exists(f, Append(CandidateDirs[i], SafeModelFilename(model_name)))
\* a run of the pipeline that got through its diarization
Diarized == call.op = "run_pipeline" /\ call.a.diarize /\ res.status = "ok"

\* C29: find_local_checkpoint(model_name) returns a path only for the file
\* safe_model_filename(model_name) of a candidate directory, and None when there
\* is none; so in run_pipeline with diarization, once the transcription model is
\* cached, the diarization model is still fetched by _ensure_local_model, and the
\* diarizer's load_model never restores the transcription model's checkpoint.
C29_CheckpointPerModel ==
  /\ call.op = "find_local_checkpoint" =>
        IF Cached(pre, call.a.model_name)
        THEN /\ Last(res.dataset_path) = SafeModelFilename(call.a.model_name)
             /\ Exists(pre, res.dataset_path)
        ELSE res.dataset_path = NoPath
  /\ (Diarized /\ Cached(fs, call.a.model)) =>
        /\ Cached(pre, call.a.diarization_model)
             \/ \E k \in 1..Len(io) : io[k] = Event("ASRModel.from_pretrained", call.a.diarization_model)
        /\ \A k \in 1..Len(io) :
              io[k].ev = "SortformerEncLabelModel.restore_from"
                => Last(io[k].arg) # SafeModelFilename(call.a.model)

\* a call of prepare_audio_files, and the inputs that existed when it was made
PrepareCalled == call.op = "prepare_audio_files"
ExistingInputs == SelectSeq(call.a.paths, LAMBDA p : Exists(pre, p))

\* C30: prepare_audio_files removes the temporary directory it created on every
\* exit of the context (normal exit, an exception in the with-body, a conversion
\* failure part-way), never deletes or rewrites an original input file, and yields
\* one prepared path per existing input, in the inputs' order, missing inputs
\* skipped.
C30_PrepareAudioFiles ==
  PrepareCalled =>
    /\ ~call.a.inside => \A q \in DOMAIN fs : ~IsAtOrUnder(q, MkdTemp)
    /\ \A q \in DOMAIN pre : q \in DOMAIN fs /\ fs[q] = pre[q]
    /\ call.a.yielded =>
         /\ Len(res.files) = Len(ExistingInputs)
         /\ \A k \in 1..Len(res.files) :
              \/ res.files[k] = ExistingInputs[k]
              \/ /\ Front(res.files[k]) = MkdTemp
                 /\ call.a.inside => IsFile(fs, res.files[k])
                 /\ NeedsConversion(ExistingInputs[k], FfprobeInspect(pre, ExistingInputs[k]))

C30_Witness ==
  /\ PrepareCalled
  /\ call.a.paths = <<BWav, Missing, AWav>>
  /\ ~call.a.inside
  /\ res.err = "RuntimeError"
  /\ Len(res.files) = 2
  /\ res.files[2] = AWav
  /\ MkdTemp \notin DOMAIN fs
  /\ fs = pre

====
